---- MODULE Spec2Model ----
(***************************************************************************)
(* Verification model of the AdonisJS middleware learning lab: the global  *)
(* and named middleware of app/Middleware, the route table of              *)
(* start/routes.ts, the controllers, and the shared state they touch (the  *)
(* in-memory rate-limit table, the client's cookies, the session store).   *)
(*                                                                         *)
(* A request is processed as an onion: the before-phase of each middleware *)
(* of the route's chain in order, the route handler, then the after-phases *)
(* in reverse.  Every phase is one atomic step (JavaScript runs a          *)
(* middleware to its `await next()` without interruption).                 *)
(*                                                                         *)
(* Strings that the code inspects are sequences: character codes for IP    *)
(* addresses and user agents (the rollout hash reads charCodeAt), chunks   *)
(* for tokens and URLs (cut so that substring search on characters and on  *)
(* chunks agree).  32-bit integers are pairs <<hi, lo>> of 16-bit halves.  *)
(***************************************************************************)
EXTENDS Integers, Sequences, FiniteSets, TLC

(***************************************************************************)
(* Bounds of the model (not program constants).                            *)
(***************************************************************************)
MaxRequests == 2          \* requests received in one behaviour of Spec
MaxRateRequests == 12     \* requests received in one behaviour of SpecRate
MaxSessionRequests == 4   \* requests received in one behaviour of SpecSession
MaxCookieRequests == 4    \* requests received in one behaviour of SpecCookie
MaxStageRequests == 1     \* requests received in one behaviour of SpecStage
MaxRaceRequests == 12     \* requests received in one behaviour of SpecRace
MaxRolloutRequests == 2   \* requests received in one behaviour of SpecRollout
MaxDeviceRequests == 1    \* requests received in one behaviour of SpecDevice
MaxCartRequests == 2      \* requests received in one behaviour of SpecCart
MaxCompareRequests == 3   \* requests received in one behaviour of SpecCompare
MaxTime == 60001          \* the clock stops advancing past this instant (ms)

VARIABLES
  now,        \* Date.now() in milliseconds
  requests,   \* RateLimit.requests: key -> [count, resetTime], absent keys unmapped
  inflight,   \* slot -> the request being processed in that slot (or Idle)
  jar,        \* the client's cookie jar: cookie name -> value
  sessStore,  \* the session driver's contents for the client's session
  served,     \* number of requests received so far
  window,     \* history: <<ip, tier>> -> [open, ord, admitted, prior], the window
              \* of a client on a tier as the client counts it (opened by its
              \* first request, windowMs long): the requests counted and admitted
              \* in it, and the requests counted in the window before it
  history     \* history of the browser's cookie and session requests:
              \* [last, cleared], see Remember

vars == <<now, requests, inflight, jar, sessStore, served, window, history>>

(***************************************************************************)
(* Maps with a dynamic domain (JavaScript objects, Map, header bags).      *)
(***************************************************************************)
EmptyMap == [k \in {} |-> 0]

Has(m, k) == k \in DOMAIN m

Put(m, k, v) == [x \in (DOMAIN m) \cup {k} |-> IF x = k THEN v ELSE m[x]]

Remove(m, k) == [x \in (DOMAIN m) \ {k} |-> m[x]]

\* {...a, ...b}: object spread, later keys win
Spread(a, b) == [x \in (DOMAIN a) \cup (DOMAIN b) |-> IF x \in DOMAIN b THEN b[x] ELSE a[x]]

(***************************************************************************)
(* Sequence helpers: String.prototype.includes and .replace(pat, '').      *)
(***************************************************************************)
MatchAt(s, pat, i) ==
  /\ i + Len(pat) - 1 <= Len(s)
  /\ \A j \in 1..Len(pat) : s[i + j - 1] = pat[j]

Includes(s, pat) == \E i \in 1..(Len(s) + 1) : MatchAt(s, pat, i)

\* removes the FIRST occurrence of pat, wherever it is; s unchanged when absent
ReplaceFirst(s, pat) ==
  IF ~Includes(s, pat) THEN s
  ELSE LET i == CHOOSE k \in 1..(Len(s) + 1) :
                  MatchAt(s, pat, k) /\ \A l \in 1..(k - 1) : ~MatchAt(s, pat, l)
       IN  SubSeq(s, 1, i - 1) \o SubSeq(s, i + Len(pat), Len(s))

(***************************************************************************)
(* 32-bit integer arithmetic on <<hi, lo>> pairs (two's complement).       *)
(***************************************************************************)
Half == 65536

Zero32 == <<0, 0>>

\* x << 5, truncated to 32 bits
Shl5(x) == <<(x[1] * 32 + (x[2] \div 2048)) % Half, (x[2] * 32) % Half>>

\* x - y modulo 2^32
Sub32(x, y) ==
  LET borrow == IF x[2] < y[2] THEN 1 ELSE 0
  IN  <<(x[1] - y[1] - borrow + Half) % Half, (x[2] - y[2] + Half) % Half>>

\* x + c modulo 2^32, for a character code c
Add32(x, c) == <<(x[1] + ((x[2] + c) \div Half)) % Half, (x[2] + c) % Half>>

IsNegative32(x) == x[1] >= 32768

\* -x modulo 2^32
Neg32(x) == Sub32(Zero32, x)

\* the sign is kept: the hash is returned as it is
Abs32Mutant(x) == x

\* Math.abs of a signed 32-bit value, as an unsigned magnitude (2^31 for -2^31)
Abs32(x) == IF IsNegative32(x) THEN Neg32(x) ELSE x

\* m % 100 for an unsigned magnitude (65536 % 100 = 36)
Mod100(m) == ((m[1] % 100) * 36 + (m[2] % 100)) % 100

(***************************************************************************)
(* Client identities: IP addresses and User-Agent strings as char codes.   *)
(***************************************************************************)
IpLoopback == <<58, 58, 49>>                        \* "::1"
IpLan == <<49, 48, 46, 48, 46, 48, 46, 55>>         \* "10.0.0.7"
UaAbsent == <<>>                                    \* no User-Agent header
UaIPhone == <<105, 80, 104, 111, 110, 101>>         \* "iPhone"

IPs == {IpLoopback, IpLan}
UserAgents == {UaAbsent, UaIPhone}

\* String.prototype.toLowerCase on char codes (ASCII)
ToLowerCase(s) == [i \in 1..Len(s) |-> IF s[i] >= 65 /\ s[i] <= 90 THEN s[i] + 32 ELSE s[i]]

(***************************************************************************)
(* FeatureFlag.getUserRolloutId: hash of ip + user agent, then Math.abs.   *)
(***************************************************************************)
RECURSIVE HashFrom(_, _, _)
HashFrom(seed, i, hash) ==
  IF i > Len(seed) THEN hash
  ELSE LET next == Add32(Sub32(Shl5(hash), hash), seed[i])
       \* hash & hash: the value of every round is a 32-bit integer (computed
       \* here, before the next round starts)
       IN  IF next \in Nat \X Nat THEN HashFrom(seed, i + 1, next) ELSE next

\* the user agent is left out of the seed
getUserRolloutIdMutant(ip, userAgent) == Abs32(HashFrom(ip, 1, Zero32))

getUserRolloutId(ip, userAgent) == Abs32(HashFrom(ip \o userAgent, 1, Zero32))

\* n.toString(): the decimal text of a number
NumberToString(n) == [decimal |-> n]

\* parseInt of a decimal text
ParseInt(text) == text.decimal

(***************************************************************************)
(* FeatureFlag.features                                                    *)
(***************************************************************************)
\* new-api rolled out to half of the clients
featuresMutant ==
  [x \in {"new-api", "beta-features", "experimental", "premium-features"} |->
     CASE x = "new-api"          -> [enabled |-> TRUE,  rollout |-> 50,  requiresAuth |-> FALSE]
       [] x = "beta-features"    -> [enabled |-> TRUE,  rollout |-> 50,  requiresAuth |-> FALSE]
       [] x = "experimental"     -> [enabled |-> FALSE, rollout |-> 0,   requiresAuth |-> FALSE]
       [] x = "premium-features" -> [enabled |-> TRUE,  rollout |-> 100, requiresAuth |-> TRUE]]

features ==
  [x \in {"new-api", "beta-features", "experimental", "premium-features"} |->
     CASE x = "new-api"          -> [enabled |-> TRUE,  rollout |-> 100, requiresAuth |-> FALSE]
       [] x = "beta-features"    -> [enabled |-> TRUE,  rollout |-> 50,  requiresAuth |-> FALSE]
       [] x = "experimental"     -> [enabled |-> FALSE, rollout |-> 0,   requiresAuth |-> FALSE]
       [] x = "premium-features" -> [enabled |-> TRUE,  rollout |-> 100, requiresAuth |-> TRUE]]

(***************************************************************************)
(* RateLimit.limits                                                        *)
(***************************************************************************)
limits ==
  [x \in {"default", "strict", "generous"} |->
     CASE x = "default"  -> [requests |-> 100,  windowMs |-> 900000]
       [] x = "strict"   -> [requests |-> 10,   windowMs |-> 60000]
       [] x = "generous" -> [requests |-> 1000, windowMs |-> 3600000]]

\* `${clientIP}:${limitType}`
\* the characters of a tier name
LimitTypeText(limitType) ==
  CASE limitType = "default"  -> <<100, 101, 102, 97, 117, 108, 116>>
    [] limitType = "strict"   -> <<115, 116, 114, 105, 99, 116>>
    [] limitType = "generous" -> <<103, 101, 110, 101, 114, 111, 117, 115>>

\* the tier is left out of the key
RateKeyMutant(ip, limitType) == ip \o <<58>>

\* `${clientIP}:${limitType}`
RateKey(ip, limitType) == ip \o <<58>> \o LimitTypeText(limitType)

(***************************************************************************)
(* Auth: tokens are chunk sequences; "Bearer " is one chunk.               *)
(***************************************************************************)
Bearer == <<"Bearer ">>

UserToken == <<"user-token-", "123">>
AdminToken == <<"admin-token-456">>
DemoToken == <<"demo-token-789">>
BogusToken == <<"bogus">>

validTokens == {UserToken, AdminToken, DemoToken}

GuestUser == [id |-> 0, name |-> "Unknown", role |-> "guest", email |-> ""]

users ==
  [t \in {UserToken, AdminToken, DemoToken} |->
     CASE t = UserToken  -> [id |-> 1, name |-> "John Doe",   role |-> "user",  email |-> "john@example.com"]
       [] t = AdminToken -> [id |-> 2, name |-> "Jane Admin", role |-> "admin", email |-> "jane@example.com"]
       [] t = DemoToken  -> [id |-> 3, name |-> "Demo User",  role |-> "demo",  email |-> "demo@example.com"]]

\* users[token] || guest
getUserFromToken(token) == IF token \in DOMAIN users THEN users[token] ELSE GuestUser

adminPermissions == <<"read_all_users", "delete_users", "modify_system_settings", "view_analytics">>


(***************************************************************************)
(* start/kernel.ts and start/routes.ts                                     *)
(***************************************************************************)
Mw(name) == <<name, "">>

\* Auth registered as global middleware
GlobalMiddlewareMutant ==
  <<Mw("RequestLogger"), Mw("Cors"), Mw("SecurityHeaders"), Mw("BodyParser"), Mw("auth")>>

\* Server.middleware.register: global middleware, in registration order
GlobalMiddleware == <<Mw("RequestLogger"), Mw("Cors"), Mw("SecurityHeaders"), Mw("BodyParser")>>

\* Route(method, url, named middleware, handler).  The middleware of a route
\* group comes before the middleware declared on the route itself.
Route(method, url, middleware, handler) ==
  [method |-> method, url |-> url, middleware |-> middleware, handler |-> handler]

\* the feature gate of the premium group registered before auth
PremiumGroupMutant == <<<<"feature", "premium-features">>, Mw("auth"), Mw("transform")>>

PremiumGroup == <<Mw("auth"), <<"feature", "premium-features">>, Mw("transform")>>
ApiGroup == <<Mw("transform")>>

PipelineRoutes ==
  [x \in {"home", "demo.public", "demo.protected", "demo.admin", "demo.rateLimited",
          "demo.beta", "demo.device", "demo.multiple", "demo.transform", "demo.create",
          "demo.admin.create", "premium.dashboard", "premium.analytics",
          "premium.settings", "demo.error", "demo.experimental", "api.data",
          "api.users", "api.process"} |->
     CASE x = "home" -> Route("GET", <<"/">>, <<>>, "home")
       [] x = "demo.public" ->
            Route("GET", <<"/demo", "/public">>, <<>>, "DemoController.public")
       [] x = "demo.protected" ->
            Route("GET", <<"/demo", "/protected">>, <<Mw("auth")>>, "DemoController.protected")
       [] x = "demo.admin" ->
            Route("GET", <<"/demo", "/admin">>, <<Mw("auth"), Mw("admin")>>, "DemoController.admin")
       [] x = "demo.rateLimited" ->
            Route("GET", <<"/demo", "/rate", "-limited">>, <<<<"rateLimit", "strict">>>>,
                  "DemoController.rateLimited")
       [] x = "demo.beta" ->
            Route("GET", <<"/demo", "/beta">>, <<<<"feature", "beta-features">>>>,
                  "DemoController.betaFeature")
       [] x = "demo.device" ->
            Route("GET", <<"/demo", "/device">>, <<Mw("device")>>, "DemoController.deviceAware")
       [] x = "demo.multiple" ->
            Route("GET", <<"/demo", "/multiple">>,
                  <<Mw("auth"), Mw("device"), <<"feature", "new-api">>>>,
                  "DemoController.multipleMiddleware")
       [] x = "demo.transform" ->
            Route("GET", <<"/demo", "/transform">>, <<Mw("transform")>>, "DemoController.public")
       [] x = "demo.create" ->
            Route("POST", <<"/demo", "/create">>, <<Mw("auth"), <<"rateLimit", "default">>>>,
                  "DemoController.create")
       [] x = "demo.admin.create" ->
            Route("POST", <<"/demo", "/admin", "/create">>,
                  <<Mw("auth"), Mw("admin"), Mw("transform")>>, "DemoController.create")
       [] x = "premium.dashboard" ->
            Route("GET", <<"/premium", "/dashboard">>, PremiumGroup,
                  "DemoController.multipleMiddleware")
       [] x = "premium.analytics" ->
            Route("GET", <<"/premium", "/analytics">>, PremiumGroup, "DemoController.admin")
       [] x = "premium.settings" ->
            Route("POST", <<"/premium", "/settings">>, PremiumGroup, "DemoController.create")
       [] x = "demo.error" ->
            Route("GET", <<"/demo", "/error">>, <<Mw("transform")>>, "DemoController.error")
       [] x = "demo.experimental" ->
            Route("GET", <<"/demo", "/experimental">>, <<<<"feature", "experimental">>>>,
                  "DemoController.betaFeature")
       [] x = "api.data" ->
            Route("GET", <<"/api", "/v1", "/data">>,
                  ApiGroup \o <<<<"rateLimit", "generous">>>>, "DemoController.public")
       [] x = "api.users" ->
            Route("GET", <<"/api", "/v1", "/users">>,
                  ApiGroup \o <<Mw("auth"), <<"rateLimit", "default">>>>,
                  "DemoController.protected")
       [] x = "api.process" ->
            Route("POST", <<"/api", "/v1", "/process">>,
                  ApiGroup \o <<Mw("auth"), <<"rateLimit", "strict">>>>,
                  "DemoController.create")]

CookieRoute(last) ==
  Route("GET", <<"/demo", "/cookies">> \o last, <<Mw("cookies")>>,
        "CookieSessionController.cookiesDemo")

CookieRoutes ==
  [x \in {"cookies.basic", "cookies.secure", "cookies.tracking", "cookies.shoppingCart",
          "cookies.clear", "cookies.clearAuth", "cookies.read"} |->
     CASE x = "cookies.basic"        -> CookieRoute(<<"/set", "-basic">>)
       [] x = "cookies.secure"       -> CookieRoute(<<"/set", "-secure">>)
       [] x = "cookies.tracking"     -> CookieRoute(<<"/set", "-tracking">>)
       [] x = "cookies.shoppingCart" -> CookieRoute(<<"/shopping", "-cart">>)
       [] x = "cookies.clear"        -> CookieRoute(<<"/clear">>)
       [] x = "cookies.clearAuth"    -> CookieRoute(<<"/clear", "-auth">>)
       [] x = "cookies.read"         -> CookieRoute(<<"/read">>)]

SessionRoute(last) ==
  Route("GET", <<"/demo", "/sessions">> \o last, <<Mw("sessions")>>,
        "CookieSessionController.sessionsDemo")

SessionRoutes ==
  [x \in {"sessions.init", "sessions.shoppingCart", "sessions.flash",
          "sessions.updatePreferences", "sessions.regenerate", "sessions.clearCart",
          "sessions.logout", "sessions.destroy", "sessions.read"} |->
     CASE x = "sessions.init"              -> SessionRoute(<<"/init">>)
       [] x = "sessions.shoppingCart"      -> SessionRoute(<<"/shopping", "-cart">>)
       [] x = "sessions.flash"             -> SessionRoute(<<"/flash">>)
       [] x = "sessions.updatePreferences" -> SessionRoute(<<"/update", "-preferences">>)
       [] x = "sessions.regenerate"        -> SessionRoute(<<"/regenerate">>)
       [] x = "sessions.clearCart"         -> SessionRoute(<<"/clear", "-cart">>)
       [] x = "sessions.logout"            -> SessionRoute(<<"/logout">>)
       [] x = "sessions.destroy"           -> SessionRoute(<<"/destroy">>)
       [] x = "sessions.read"              -> SessionRoute(<<"/read">>)]

ComparisonRoutes ==
  [x \in {"cookieSession.overview", "cookieSession.compare",
          "cookieSession.shoppingCartDemo", "cookieSession.flashMessages"} |->
     CASE x = "cookieSession.overview" ->
            Route("GET", <<"/demo", "/cookies", "-sessions">>, <<>>,
                  "CookieSessionController.index")
       [] x = "cookieSession.compare" ->
            Route("GET", <<"/demo", "/cookies", "-vs", "-sessions">>,
                  <<Mw("cookies"), Mw("sessions")>>,
                  "CookieSessionController.compareApproaches")
       [] x = "cookieSession.shoppingCartDemo" ->
            Route("GET", <<"/demo", "/shopping", "-cart", "-comparison">>,
                  <<Mw("cookies"), Mw("sessions")>>,
                  "CookieSessionController.shoppingCartDemo")
       [] x = "cookieSession.flashMessages" ->
            Route("GET", <<"/demo", "/flash", "-messages">>, <<Mw("sessions")>>,
                  "CookieSessionController.flashMessagesDemo")]

Routes == Spread(Spread(PipelineRoutes, CookieRoutes), Spread(SessionRoutes, ComparisonRoutes))

\* named middleware runs outside the global middleware
ChainMutant(route) == Routes[route].middleware \o GlobalMiddleware

\* the middleware stack of a route: global middleware, then its named middleware
Chain(route) == GlobalMiddleware \o Routes[route].middleware

\* true when the route's chain contains the named middleware
Uses(route, name) == \E i \in 1..Len(Chain(route)) : Chain(route)[i][1] = name


(***************************************************************************)
(* Requests in flight.                                                     *)
(*   phase "down":  the before-phase of Chain[pos] is next (the handler    *)
(*                  when pos = Len(Chain) + 1)                             *)
(*   phase "up":    downstream of Chain[pos] has returned; its after-phase *)
(*                  is next                                                *)
(*   phase "throw": downstream of Chain[pos] has thrown                    *)
(*   phase "done":  the response has been sent                             *)
(* trace records <<"before", i>>, <<"handler", i>>, <<"after", i>> as the  *)
(* phases run; rejectedBy is the position that answered without calling    *)
(* next(), thrownAt the position that threw, 0 when none did.              *)
(***************************************************************************)
\* the requests the server is processing at one time
Slots == {1, 2}

\* a client that waits for each answer before it sends the next request
Serial == {1}

Idle == [phase |-> "idle"]

NoBody == [kind |-> "none", fields |-> EmptyMap]

Object(fields) == [kind |-> "object", fields |-> fields]

StringBody == [kind |-> "string", fields |-> EmptyMap]

Busy(r) == r.phase \in {"down", "up", "throw"}

ChainOf(r) == Chain(r.route)

\* response.status(code)
Status(r, code) == [r EXCEPT !.status = code]

\* response.header(name, value)
Header(r, name, value) == [r EXCEPT !.headers = Put(@, name, value)]

\* response.json(fields)
Json(r, fields) == [r EXCEPT !.resBody = Object(fields)]

\* the spread of the previous context is missing: request.ctx = {[field]: value}
CtxPutMutant(r, field, value) == [r EXCEPT !.ctx = Put(EmptyMap, field, value)]

\* request.ctx = {...request.ctx, [field]: value}
CtxPut(r, field, value) == [r EXCEPT !.ctx = Spread(@, Put(EmptyMap, field, value))]

\* request.ctx?.user and friends: undefined reads as "absent"
CtxHas(r, field) == Has(r.ctx, field)

\* next() is awaited twice in a row
CallNextMutant(r) ==
  [r EXCEPT !.trace = Append(Append(@, <<"before", r.pos>>), <<"before", r.pos>>), !.pos = @ + 1]

\* await next(): control enters the next stage of the chain
CallNext(r) ==
  [r EXCEPT !.trace = Append(@, <<"before", r.pos>>), !.pos = @ + 1]

\* the `return` after the response is missing: next() is called all the same
ShortCircuitMutant(r) ==
  [r EXCEPT !.trace = Append(@, <<"before", r.pos>>), !.rejectedBy = r.pos, !.pos = @ + 1]

\* return without calling next(): control goes back to the caller
ShortCircuit(r) ==
  [r EXCEPT !.trace = Append(@, <<"before", r.pos>>), !.rejectedBy = r.pos,
            !.phase = "up", !.pos = @ - 1]

\* the stage at pos throws: the exception goes to the caller's await
Throw(r, kind) ==
  [r EXCEPT !.trace = Append(@, <<kind, r.pos>>), !.thrownAt = r.pos,
            !.phase = "throw", !.pos = @ - 1]

\* the after-phase of the stage at pos has run to its end
Return(r) ==
  [r EXCEPT !.trace = Append(@, <<"after", r.pos>>), !.phase = "up", !.pos = @ - 1]

AtBefore(r, name) ==
  /\ r.phase = "down"
  /\ r.pos <= Len(ChainOf(r))
  /\ ChainOf(r)[r.pos][1] = name

AtAfter(r, name) ==
  /\ r.phase = "up"
  /\ r.pos >= 1
  /\ ChainOf(r)[r.pos][1] = name

AtHandler(r) == r.phase = "down" /\ r.pos = Len(ChainOf(r)) + 1

\* the parameter of the middleware at the current position ("strict", "new-api")
Param(r) == ChainOf(r)[r.pos][2]


(***************************************************************************)
(* Global middleware: RequestLogger, Cors, SecurityHeaders (and the        *)
(* framework's BodyParser, which passes every request on).                 *)
(***************************************************************************)
allowedOrigins == {"http://localhost:3000", "http://localhost:3001", "https://yourdomain.com"}

allowedMethods == "GET, POST, PUT, DELETE, PATCH, OPTIONS"

allowedHeaders == "Content-Type, Authorization, X-Requested-With, Accept, Origin"

\* every origin that is sent is echoed, the allow-list is not consulted
setCorsHeadersMutant(r) ==
  LET allowOrigin ==
        IF r.origin # ""
          THEN Header(r, "Access-Control-Allow-Origin", r.origin)
          ELSE Header(r, "Access-Control-Allow-Origin", "*")
  IN  Header(Header(Header(allowOrigin,
        "Access-Control-Allow-Methods", allowedMethods),
        "Access-Control-Allow-Headers", allowedHeaders),
        "Access-Control-Allow-Credentials", "true")

\* origin "" stands for a request without an Origin header
setCorsHeaders(r) ==
  LET allowOrigin ==
        IF r.origin # "" /\ r.origin \in allowedOrigins
          THEN Header(r, "Access-Control-Allow-Origin", r.origin)
        ELSE IF r.origin = ""
          THEN Header(r, "Access-Control-Allow-Origin", "*")
        ELSE r
  IN  Header(Header(Header(allowOrigin,
        "Access-Control-Allow-Methods", allowedMethods),
        "Access-Control-Allow-Headers", allowedHeaders),
        "Access-Control-Allow-Credentials", "true")

\* the headers are set before next() is called
CorsHandleMutant(r) ==
  IF r.method = "OPTIONS"
    THEN ShortCircuit([Status(Header(setCorsHeaders(r), "Access-Control-Max-Age", "86400"), 204)
                         EXCEPT !.resBody = StringBody])
    ELSE CallNext(setCorsHeaders(r))

CorsHandle(r) ==
  IF r.method = "OPTIONS"
    THEN ShortCircuit([Status(Header(setCorsHeaders(r), "Access-Control-Max-Age", "86400"), 204)
                         EXCEPT !.resBody = StringBody])
    ELSE CallNext(r)

CorsAfter(r) == Return(setCorsHeaders(r))

\* SecurityHeaders calls next() first and sets these on the way out
SecurityHeaderValues ==
  [x \in {"X-Frame-Options", "X-Content-Type-Options", "X-XSS-Protection",
          "Referrer-Policy", "Content-Security-Policy", "Strict-Transport-Security",
          "Permissions-Policy", "X-Powered-By"} |->
     CASE x = "X-Frame-Options"           -> "DENY"
       [] x = "X-Content-Type-Options"    -> "nosniff"
       [] x = "X-XSS-Protection"          -> "1; mode=block"
       [] x = "Referrer-Policy"           -> "strict-origin-when-cross-origin"
       [] x = "Content-Security-Policy"   -> "default-src 'self'"
       [] x = "Strict-Transport-Security" -> "max-age=31536000; includeSubDomains"
       [] x = "Permissions-Policy"        -> "geolocation=(), microphone=(), camera=()"
       [] x = "X-Powered-By"              -> "AdonisJS-Middleware-Demo"]

\* the after-phase returns without setting a header
SecurityHeadersAfterMutant(r) == Return(r)

SecurityHeadersAfter(r) == Return([r EXCEPT !.headers = Spread(@, SecurityHeaderValues)])

(***************************************************************************)
(* Auth.  A header or request input is a JavaScript value: undefined, a    *)
(* string (a chunk sequence), or something else (request.input yields an   *)
(* array for ?token[]=x and whatever a JSON body holds).                   *)
(***************************************************************************)
Undefined == [type |-> "undefined", chunks |-> <<>>]

Str(chunks) == [type |-> "string", chunks |-> chunks]

ArrayValue == [type |-> "array", chunks |-> <<>>]

\* JavaScript truthiness: undefined and '' are falsy, an array is truthy
Truthy(v) == v.type = "array" \/ (v.type = "string" /\ v.chunks # <<>>)

\* request.input('token') || request.header('authorization')
AuthTokenMutant(r) == IF Truthy(r.tokenInput) THEN r.tokenInput ELSE r.authorization

\* request.header('authorization') || request.input('token')
AuthToken(r) == IF Truthy(r.authorization) THEN r.authorization ELSE r.tokenInput

AuthHandle(r) ==
  LET token == AuthToken(r)
      cleanToken == ReplaceFirst(token.chunks, Bearer)
  IN  IF ~Truthy(token)
        THEN ShortCircuit(Json(Status(r, 401),
               [error |-> "Authentication required",
                message |-> "Please provide an authentication token"]))
      ELSE IF token.type # "string"
        THEN Throw(r, "before")       \* TypeError: token.replace is not a function
      ELSE IF cleanToken \notin validTokens
        THEN ShortCircuit(Json(Status(r, 401),
               [error |-> "Invalid token", message |-> "The provided token is not valid"]))
      ELSE CallNext(CtxPut(r, "user", getUserFromToken(cleanToken)))

(***************************************************************************)
(* Admin                                                                   *)
(***************************************************************************)
\* only the guest role is turned away
AdminHandleMutant(r) ==
  IF ~CtxHas(r, "user")
    THEN ShortCircuit(Json(Status(r, 401),
           [error |-> "Authentication required",
            message |-> "User must be authenticated before checking admin access"]))
  ELSE IF r.ctx.user.role = "guest"
    THEN ShortCircuit(Json(Status(r, 403),
           [error |-> "Insufficient privileges", message |-> "Admin access required",
            user |-> [name |-> r.ctx.user.name, role |-> r.ctx.user.role,
                      requiredRole |-> "admin"]]))
  ELSE CallNext([r EXCEPT !.ctx = Spread(@, [isAdmin |-> TRUE,
                                              adminPermissions |-> adminPermissions])])

AdminHandle(r) ==
  IF ~CtxHas(r, "user")
    THEN ShortCircuit(Json(Status(r, 401),
           [error |-> "Authentication required",
            message |-> "User must be authenticated before checking admin access"]))
  ELSE IF r.ctx.user.role # "admin"
    THEN ShortCircuit(Json(Status(r, 403),
           [error |-> "Insufficient privileges", message |-> "Admin access required",
            user |-> [name |-> r.ctx.user.name, role |-> r.ctx.user.role,
                      requiredRole |-> "admin"]]))
  ELSE CallNext([r EXCEPT !.ctx = Spread(@, [isAdmin |-> TRUE,
                                              adminPermissions |-> adminPermissions])])

(***************************************************************************)
(* FeatureFlag                                                             *)
(***************************************************************************)
\* the rollout bucket is checked before the enabled switch
FeatureFlagHandleMutant(r0, featureName) ==
  LET r == [r0 EXCEPT !.loc = Spread(@, [featureName |-> featureName])]
  IN  IF featureName \notin DOMAIN features
        THEN ShortCircuit(Json(Status(r, 404), [error |-> "Feature not found"]))
      ELSE
        LET feature == features[featureName]
            userRolloutId == getUserRolloutId(r.ip, r.userAgent)
        IN  IF Mod100(userRolloutId) >= feature.rollout
              THEN ShortCircuit(Json(Status(r, 403),
                     [error |-> "Feature not available",
                      feature |-> [name |-> featureName, enabled |-> TRUE,
                                   inRollout |-> FALSE,
                                   rolloutPercentage |-> feature.rollout]]))
            ELSE IF ~feature.enabled
              THEN ShortCircuit(Json(Status(r, 403),
                     [error |-> "Feature disabled",
                      feature |-> [name |-> featureName, enabled |-> FALSE]]))
            ELSE IF feature.requiresAuth /\ ~CtxHas(r, "user")
              THEN ShortCircuit(Json(Status(r, 401),
                     [error |-> "Authentication required",
                      feature |-> [name |-> featureName, requiresAuth |-> TRUE]]))
            ELSE CallNext(CtxPut(r, "feature",
                     [name |-> featureName, enabled |-> TRUE, rolloutId |-> userRolloutId,
                      rolloutPercentage |-> feature.rollout]))

\* featureName is the parameter of the stage ('feature:<name>' on the route); the
\* code after `await next()` reads it again, so it is kept with the call's locals
FeatureFlagHandle(r0, featureName) ==
  LET r == [r0 EXCEPT !.loc = Spread(@, [featureName |-> featureName])]
  IN  IF featureName \notin DOMAIN features
        THEN ShortCircuit(Json(Status(r, 404), [error |-> "Feature not found"]))
      ELSE
        LET feature == features[featureName]
            userRolloutId == getUserRolloutId(r.ip, r.userAgent)
            userRolloutPercentage == Mod100(userRolloutId)
        IN  IF ~feature.enabled
              THEN ShortCircuit(Json(Status(r, 403),
                     [error |-> "Feature disabled",
                      feature |-> [name |-> featureName, enabled |-> FALSE]]))
            ELSE IF userRolloutPercentage >= feature.rollout
              THEN ShortCircuit(Json(Status(r, 403),
                     [error |-> "Feature not available",
                      feature |-> [name |-> featureName, enabled |-> TRUE,
                                   inRollout |-> FALSE,
                                   rolloutPercentage |-> feature.rollout]]))
            ELSE IF feature.requiresAuth /\ ~CtxHas(r, "user")
              THEN ShortCircuit(Json(Status(r, 401),
                     [error |-> "Authentication required",
                      feature |-> [name |-> featureName, requiresAuth |-> TRUE]]))
            ELSE CallNext(CtxPut(r, "feature",
                     [name |-> featureName, enabled |-> TRUE, rolloutId |-> userRolloutId,
                      rolloutPercentage |-> feature.rollout]))

FeatureFlagAfter(r) ==
  Return(Header(Header(Header(r,
    "X-Feature-Flag", r.loc.featureName),
    "X-Feature-Enabled", "true"),
    "X-Feature-Rollout", NumberToString(features[r.loc.featureName].rollout)))


(***************************************************************************)
(* DeviceDetector                                                          *)
(***************************************************************************)
\* /mobile|android|iphone|ipod|blackberry|iemobile|opera mini/i
MobilePatterns ==
  {<<109, 111, 98, 105, 108, 101>>,   \* mobile
   <<97, 110, 100, 114, 111, 105, 100>>,   \* android
   <<105, 112, 104, 111, 110, 101>>,   \* iphone
   <<105, 112, 111, 100>>,   \* ipod
   <<98, 108, 97, 99, 107, 98, 101, 114, 114, 121>>,   \* blackberry
   <<105, 101, 109, 111, 98, 105, 108, 101>>,   \* iemobile
   <<111, 112, 101, 114, 97, 32, 109, 105, 110, 105>> }   \* opera mini

\* /tablet|ipad|android(?!.*mobile)/i, the alternatives without lookahead
TabletPatterns ==
  {<<116, 97, 98, 108, 101, 116>>,   \* tablet
   <<105, 112, 97, 100>> }   \* ipad

\* /smart-tv|smarttv|googletv|appletv|hbbtv|pov_tv|netcast.tv/i, the literal alternatives
TvPatterns ==
  {<<115, 109, 97, 114, 116, 45, 116, 118>>,   \* smart-tv
   <<115, 109, 97, 114, 116, 116, 118>>,   \* smarttv
   <<103, 111, 111, 103, 108, 101, 116, 118>>,   \* googletv
   <<97, 112, 112, 108, 101, 116, 118>>,   \* appletv
   <<104, 98, 98, 116, 118>>,   \* hbbtv
   <<112, 111, 118, 95, 116, 118>> }   \* pov_tv

\* /bot|crawler|spider|scraper/i
BotPatterns ==
  {<<98, 111, 116>>,   \* bot
   <<99, 114, 97, 119, 108, 101, 114>>,   \* crawler
   <<115, 112, 105, 100, 101, 114>>,   \* spider
   <<115, 99, 114, 97, 112, 101, 114>> }   \* scraper

\* the words parseUserAgent looks for, as character codes
Words ==
  [android |-> <<97, 110, 100, 114, 111, 105, 100>>,
   mobile |-> <<109, 111, 98, 105, 108, 101>>,
   netcast |-> <<110, 101, 116, 99, 97, 115, 116>>,
   tv |-> <<116, 118>>,
   chrome |-> <<99, 104, 114, 111, 109, 101>>,
   edge |-> <<101, 100, 103, 101>>,
   firefox |-> <<102, 105, 114, 101, 102, 111, 120>>,
   safari |-> <<115, 97, 102, 97, 114, 105>>,
   opera |-> <<111, 112, 101, 114, 97>>,
   msie |-> <<109, 115, 105, 101>>,
   trident |-> <<116, 114, 105, 100, 101, 110, 116>>,
   windows |-> <<119, 105, 110, 100, 111, 119, 115>>,
   macOs |-> <<109, 97, 99, 32, 111, 115>>,
   linux |-> <<108, 105, 110, 117, 120>>,
   ios |-> <<105, 111, 115>>,
   iphone |-> <<105, 112, 104, 111, 110, 101>>,
   ipad |-> <<105, 112, 97, 100>>]

TestAny(ua, patterns) == \E pat \in patterns : Includes(ua, pat)

\* android(?!.*mobile): "android" with no "mobile" anywhere after it
AndroidNotMobile(ua) ==
  \E i \in 1..Len(ua) :
    /\ MatchAt(ua, Words.android, i)
    /\ \A j \in (i + Len(Words.android))..Len(ua) : ~MatchAt(ua, Words.mobile, j)

\* netcast.tv: "netcast", any one character, "tv"
NetcastTv(ua) ==
  \E i \in 1..Len(ua) :
    /\ MatchAt(ua, Words.netcast, i)
    /\ MatchAt(ua, Words.tv, i + Len(Words.netcast) + 1)

DeviceType(ua) ==
  IF TestAny(ua, MobilePatterns) THEN "mobile"
  ELSE IF TestAny(ua, TabletPatterns) \/ AndroidNotMobile(ua) THEN "tablet"
  ELSE IF TestAny(ua, TvPatterns) \/ NetcastTv(ua) THEN "tv"
  ELSE "desktop"

Browser(ua) ==
  IF Includes(ua, Words.chrome) /\ ~Includes(ua, Words.edge) THEN "chrome"
  ELSE IF Includes(ua, Words.firefox) THEN "firefox"
  ELSE IF Includes(ua, Words.safari) /\ ~Includes(ua, Words.chrome) THEN "safari"
  ELSE IF Includes(ua, Words.edge) THEN "edge"
  ELSE IF Includes(ua, Words.opera) THEN "opera"
  ELSE IF Includes(ua, Words.msie) \/ Includes(ua, Words.trident) THEN "internet_explorer"
  ELSE "unknown"

Os(ua) ==
  IF Includes(ua, Words.windows) THEN "windows"
  ELSE IF Includes(ua, Words.macOs) THEN "macos"
  ELSE IF Includes(ua, Words.linux) THEN "linux"
  ELSE IF Includes(ua, Words.android) THEN "android"
  ELSE IF Includes(ua, Words.ios) \/ Includes(ua, Words.iphone) \/ Includes(ua, Words.ipad) THEN "ios"
  ELSE "unknown"

parseUserAgent(userAgent) ==
  LET ua == ToLowerCase(userAgent)
      type == DeviceType(ua)
  IN  [type |-> type, browser |-> Browser(ua), os |-> Os(ua),
       isBot |-> TestAny(ua, BotPatterns),
       isMobile |-> (type = "mobile"), isTablet |-> (type = "tablet"),
       userAgent |-> SubSeq(userAgent, 1, IF Len(userAgent) < 100 THEN Len(userAgent) ELSE 100)]

DeviceDetectorHandle(r) ==
  LET deviceInfo == parseUserAgent(r.userAgent)
      r1 == [CtxPut(r, "device", deviceInfo) EXCEPT !.loc = Put(@, "deviceInfo", deviceInfo)]
  IN  CallNext(Header(Header(Header(r1,
        "X-Device-Type", deviceInfo.type),
        "X-Browser", deviceInfo.browser),
        "X-OS", deviceInfo.os))

\* the flags are added for every device type
DeviceDetectorAfterMutant(r) ==
  LET deviceInfo == r.loc.deviceInfo
  IN  IF r.resBody.kind = "object"
        THEN Return(Json(r, Spread(r.resBody.fields,
                                   [mobile_optimized |-> TRUE, device_info |-> deviceInfo])))
        ELSE Return(r)

DeviceDetectorAfter(r) ==
  LET deviceInfo == r.loc.deviceInfo
  IN  IF deviceInfo.type = "mobile" /\ r.resBody.kind = "object"
        THEN Return(Json(r, Spread(r.resBody.fields,
                                   [mobile_optimized |-> TRUE, device_info |-> deviceInfo])))
        ELSE Return(r)

(***************************************************************************)
(* ResponseTransformer.  generateRequestId mixes the clock with            *)
(* Math.random(): the id is an input of the step.                          *)
(***************************************************************************)
RequestIds == {"req_a", "req_b"}

\* only the bare media type is taken for JSON
IsJsonContentTypeMutant(r) == r.contentType = "application/json"

\* request.header('content-type')?.includes('application/json'), over the
\* content types that requests are sent with ("none": no header)
IsJsonContentType(r) ==
  r.contentType \in {"application/json", "application/json; charset=utf-8"}

\* the meta block is given an id of its own
MetaMutant(requestId, processingTime) ==
  [requestId |-> "req_meta", processingTime |-> processingTime, timestamp |-> now]

Meta(requestId, processingTime) ==
  [requestId |-> requestId, processingTime |-> processingTime, timestamp |-> now]

ResponseTransformerHandle(r, requestId) ==
  LET r1 == [r EXCEPT !.ctx = Spread(@, [requestId |-> requestId, startTime |-> now]),
                      !.loc = Spread(@, [requestId |-> requestId, startTime |-> now])]
      r2 == Header(r1, "X-Request-ID", requestId)
  IN  IF IsJsonContentType(r) /\ r.bodyReadFails
        THEN ShortCircuit(Json(Status(r2, 400),
               [error |-> "Invalid JSON", message |-> "Request body contains malformed JSON",
                requestId |-> requestId]))
        ELSE CallNext(r2)

\* the downstream body is nested under `data` instead of being spread
ResponseTransformerAfterMutant(r) ==
  LET r1 == Header(Header(r, "X-Processing-Time", now - r.loc.startTime),
                   "X-Server", "AdonisJS-Middleware-Demo")
  IN  IF r.phase = "throw"
        THEN Return(Json(Status(r1, 500),
               [error |-> "Internal Server Error",
                message |-> "An error occurred while processing your request",
                meta |-> Meta(r.loc.requestId, now - r.loc.startTime)]))
      ELSE IF r.resBody.kind = "object"
        THEN Return(Json(r1,
               [data |-> r.resBody.fields,
                meta |-> Spread(Meta(r.loc.requestId, now - r.loc.startTime),
                                [version |-> "1.0.0"])]))
      ELSE Return(r1)

\* the code after `await next()`, entered on return (phase "up") and, through
\* the catch block, on an exception from downstream (phase "throw")
ResponseTransformerAfter(r) ==
  LET requestId == r.loc.requestId
      processingTime == now - r.loc.startTime
      r1 == Header(Header(r, "X-Processing-Time", processingTime),
                   "X-Server", "AdonisJS-Middleware-Demo")
  IN  IF r.phase = "throw"
        THEN Return(Json(Status(r1, 500),
               [error |-> "Internal Server Error",
                message |-> "An error occurred while processing your request",
                meta |-> Meta(requestId, processingTime)]))
      ELSE IF r.resBody.kind = "object"
        THEN Return(Json(r1, Spread(r.resBody.fields,
               [meta |-> Spread(Meta(requestId, processingTime), [version |-> "1.0.0"])])))
      ELSE Return(r1)


(***************************************************************************)
(* RateLimit                                                               *)
(***************************************************************************)
\* the division by 1000 is missing: milliseconds are reported
CeilSecondsMutant(ms) == ms

\* Math.ceil(ms / 1000) for ms >= 0
CeilSeconds(ms) == (ms + 999) \div 1000

\* the window is over at its reset time already
CurrentWindowMutant(table, key, limit, t) ==
  IF ~Has(table, key) \/ t >= table[key].resetTime
    THEN [count |-> 0, resetTime |-> t + limit.windowMs]
    ELSE table[key]

\* the entry the request counts against: a fresh window when the key has no
\* entry or the stored window is over
CurrentWindow(table, key, limit, t) ==
  IF ~Has(table, key) \/ t > table[key].resetTime
    THEN [count |-> 0, resetTime |-> t + limit.windowMs]
    ELSE table[key]

\* the limit is reached one request early
LimitExceededMutant(requestData, limit) == requestData.count >= limit.requests

LimitExceeded(requestData, limit) == requestData.count > limit.requests

Remaining(requestData, limit) == limit.requests - requestData.count

\* the count of a rejected request is not written back
RateLimitHandleMutant(r, table, t) ==
  LET limitType == Param(r)
      key == RateKey(r.ip, limitType)
      limit == limits[limitType]
      current == CurrentWindow(table, key, limit, t)
      requestData == [current EXCEPT !.count = @ + 1]
      resetIn == CeilSeconds(requestData.resetTime - t)
      r1 == Header(Header(r, "X-RateLimit-Limit", NumberToString(limit.requests)),
                   "X-RateLimit-Reset", NumberToString(requestData.resetTime))
  IN  IF LimitExceeded(requestData, limit)
        THEN [table |-> table,
              r |-> ShortCircuit(Json(Status(
                      Header(Header(r1, "X-RateLimit-Remaining", NumberToString(0)),
                             "Retry-After", NumberToString(resetIn)),
                      429),
                      [error |-> "Rate limit exceeded",
                       limit |-> [requests |-> limit.requests, windowMs |-> limit.windowMs,
                                  type |-> limitType],
                       current |-> [count |-> requestData.count, resetIn |-> resetIn]]))]
        ELSE [table |-> Put(table, key, requestData),
              r |-> CallNext([Header(r1, "X-RateLimit-Remaining",
                                     NumberToString(Remaining(requestData, limit)))
                                EXCEPT !.loc = Put(@, "remaining",
                                                   Remaining(requestData, limit))])]

\* the before-phase; yields the updated table and the updated request
RateLimitHandle(r, table, t) ==
  LET limitType == Param(r)
      key == RateKey(r.ip, limitType)
      limit == limits[limitType]
      current == CurrentWindow(table, key, limit, t)
      requestData == [current EXCEPT !.count = @ + 1]
      resetIn == CeilSeconds(requestData.resetTime - t)
      r1 == Header(Header(r, "X-RateLimit-Limit", NumberToString(limit.requests)),
                   "X-RateLimit-Reset", NumberToString(requestData.resetTime))
  IN  [table |-> Put(table, key, requestData),
       r |-> IF LimitExceeded(requestData, limit)
               THEN ShortCircuit(Json(Status(
                      Header(Header(r1, "X-RateLimit-Remaining", NumberToString(0)),
                             "Retry-After", NumberToString(resetIn)),
                      429),
                      [error |-> "Rate limit exceeded",
                       limit |-> [requests |-> limit.requests, windowMs |-> limit.windowMs,
                                  type |-> limitType],
                       current |-> [count |-> requestData.count, resetIn |-> resetIn]]))
               ELSE CallNext([Header(r1, "X-RateLimit-Remaining",
                                     NumberToString(Remaining(requestData, limit)))
                                EXCEPT !.loc = Put(@, "remaining",
                                                   Remaining(requestData, limit))])]

(***************************************************************************)
(* Cookies as the framework carries them: response.cookie signs the value, *)
(* request.cookie returns the value of a signed cookie and the default     *)
(* otherwise, response.clearCookie sends an expired cookie.                *)
(***************************************************************************)
SignedCookie(value) == [signed |-> TRUE, expired |-> FALSE, value |-> value]

ExpiredCookie == [signed |-> FALSE, expired |-> TRUE, value |-> ""]

HasCookie(r, name) == Has(r.cookies, name) /\ r.cookies[name].signed

\* request.cookie(name, defaultValue)
RequestCookie(r, name, defaultValue) ==
  IF HasCookie(r, name) THEN r.cookies[name].value ELSE defaultValue

\* response.cookie(name, value, options)
ResponseCookie(r, name, value) == [r EXCEPT !.setCookies = Put(@, name, SignedCookie(value))]

\* response.clearCookie(name)
ClearCookie(r, name) == [r EXCEPT !.setCookies = Put(@, name, ExpiredCookie)]

\* the client stores what Set-Cookie says and drops expired cookies
StoreCookies(cookies, setCookies) ==
  [n \in {x \in (DOMAIN cookies) \cup (DOMAIN setCookies) :
             ~(x \in DOMAIN setCookies /\ setCookies[x].expired)} |->
     IF n \in DOMAIN setCookies THEN setCookies[n] ELSE cookies[n]]

(***************************************************************************)
(* JSON texts and JavaScript values, as far as the cart code looks at      *)
(* them: a text is valid or not; a value is an array or something else.    *)
(***************************************************************************)
Array(items) == [type |-> "array", items |-> items]

JsonText(value) == [valid |-> TRUE, value |-> value]

\* JSON.stringify
JsonStringify(value) == JsonText(value)

\* try { JSON.parse(text) } catch { [] }
JsonParseOrEmpty(text) == IF text.valid THEN text.value ELSE Array(<<>>)

(***************************************************************************)
(* CookieManager                                                           *)
(***************************************************************************)
Url(r) == Routes[r.route].url

\* the /cookies segment is missing from the patterns
CookieUrlMutant(last) == <<"/demo">> \o last

CookieUrl(last) == <<"/demo", "/cookies">> \o last

\* the item put into a cart at time t (its random price is left out)
NewItem(t) == [id |-> t, quantity |-> 1]

CookieInfo(r) == [totalCookies |-> Cardinality(DOMAIN r.cookies), cookieNames |-> DOMAIN r.cookies]

CookieManagerDone(r) == CallNext([r EXCEPT !.cookieInfo = CookieInfo(r)])

\* the cart cookie is left behind
ClearDemoCookiesMutant(r) ==
  ClearCookie(ClearCookie(ClearCookie(r, "user_preference"), "visit_count"), "last_visit")

\* the /clear branch
ClearDemoCookies(r) ==
  ClearCookie(ClearCookie(ClearCookie(ClearCookie(r,
    "user_preference"), "visit_count"), "last_visit"), "shopping_cart")

CookieManagerHandle(r) ==
  LET route == Url(r)
  IN  IF Includes(route, CookieUrl(<<"/set", "-basic">>))
        THEN CookieManagerDone(ResponseCookie(r, "user_preference", "dark_mode"))
      ELSE IF Includes(route, CookieUrl(<<"/set", "-secure">>))
        THEN CookieManagerDone(ResponseCookie(r, "auth_token", "secure_token_12345"))
      ELSE IF Includes(route, CookieUrl(<<"/set", "-tracking">>))
        THEN LET visitCount == ParseInt(RequestCookie(r, "visit_count", NumberToString(0))) + 1
             IN  CookieManagerDone(ResponseCookie(ResponseCookie(r,
                   "visit_count", NumberToString(visitCount)), "last_visit", now))
      ELSE IF Includes(route, CookieUrl(<<"/shopping", "-cart">>))
        THEN LET existingCart == RequestCookie(r, "shopping_cart", JsonText(Array(<<>>)))
                 cart == JsonParseOrEmpty(existingCart)
             IN  IF cart.type # "array"
                   THEN Throw(r, "before")     \* cart.push is not a function
                   ELSE CookieManagerDone(ResponseCookie(r, "shopping_cart",
                          JsonStringify(Array(Append(cart.items, NewItem(now))))))
      ELSE IF Includes(route, CookieUrl(<<"/clear">>))
        THEN CookieManagerDone(ClearDemoCookies(r))
      ELSE IF Includes(route, CookieUrl(<<"/clear", "-auth">>))
        THEN CookieManagerDone(ClearCookie(r, "auth_token"))
      ELSE CookieManagerDone(r)


(***************************************************************************)
(* Sessions as the framework carries them: at the start of a request the   *)
(* store is read and the flash messages left by the previous request are   *)
(* pulled out of it into session.flashMessages; session.flash writes to    *)
(* the messages of the response, which are stored when the response is     *)
(* committed.                                                              *)
(***************************************************************************)
FlashKey == "__flash__"

\* session.get(key, defaultValue)
SessionGet(r, key, defaultValue) == IF Has(r.sess, key) THEN r.sess[key] ELSE defaultValue

\* session.put(key, value)
SessionPut(r, key, value) == [r EXCEPT !.sess = Put(@, key, value)]

\* nothing is forgotten
SessionForgetMutant(r, key) == r

\* session.forget(key)
SessionForget(r, key) == [r EXCEPT !.sess = Remove(@, key)]

\* session.flash(key, text); `by` is history: the serial number of the request
SessionFlash(r, key, text) ==
  [r EXCEPT !.responseFlash = Put(@, key, [text |-> text, by |-> r.id])]

\* session.regenerate()
SessionRegenerate(r) == [r EXCEPT !.regenerated = TRUE]

\* only the user is dropped
SessionClearMutant(r) == [r EXCEPT !.sess = Remove(@, "user")]

\* session.clear()
SessionClear(r) == [r EXCEPT !.sess = EmptyMap]

\* what the session holds when a request starts, the flash messages taken out
InitiateSession(store) == Remove(store.data, FlashKey)

PullFlashMessages(store) == IF Has(store.data, FlashKey) THEN store.data[FlashKey] ELSE EmptyMap

\* what the driver holds after the response of r is committed
CommitSession(store, r) ==
  [id |-> IF r.regenerated THEN store.id + 1 ELSE store.id,
   data |-> IF r.responseFlash # EmptyMap THEN Put(r.sess, FlashKey, r.responseFlash)
                                          ELSE r.sess]

(***************************************************************************)
(* SessionManager                                                          *)
(***************************************************************************)
SessionUrl(last) == <<"/demo", "/sessions">> \o last

\* Math.floor(Math.random() * 1000) + 1 is an input of the step
RandomUserIds == {1, 1000}

FlashKeys == {"success", "info", "warning", "error", "cart_message"}

\* session.flashMessages.get for the five keys; absent keys are left out
ReadFlashMessages(r) == [k \in FlashKeys \cap (DOMAIN r.flashMessages) |-> r.flashMessages[k]]

SessionData(r) ==
  [id |-> r.sessionId,
   hasUser |-> Has(r.sess, "user"),
   user |-> SessionGet(r, "user", "undefined"),
   visitCount |-> SessionGet(r, "visit_count", 0),
   lastVisit |-> SessionGet(r, "last_visit", "undefined"),
   cartItems |-> Len(SessionGet(r, "cart", <<>>)),
   flashMessages |-> ReadFlashMessages(r)]

SessionManagerDone(r) == CallNext([r EXCEPT !.sessionInfo = SessionData(r)])

TogglePreferences(user) ==
  [user EXCEPT !.preferences =
     Spread(@, [theme |-> IF @.theme = "dark" THEN "light" ELSE "dark", lastUpdated |-> now])]

\* the messages are put into the session instead of flashed
FlashExamplesMutant(r) ==
  SessionPut(SessionPut(SessionPut(SessionPut(r,
    "success", "Operation completed successfully!"),
    "info", "This is an informational message"),
    "warning", "This is a warning message"),
    "error", "This is an error message")

\* the /flash branch
FlashExamples(r) ==
  SessionFlash(SessionFlash(SessionFlash(SessionFlash(r,
    "success", "Operation completed successfully!"),
    "info", "This is an informational message"),
    "warning", "This is a warning message"),
    "error", "This is an error message")

SessionManagerHandle(r, randomId) ==
  LET route == Url(r)
  IN  IF Includes(route, SessionUrl(<<"/init">>))
        THEN LET r1 == SessionPut(r, "user",
                         [id |-> randomId, name |-> "John Doe", email |-> "john@example.com",
                          role |-> "user", loginTime |-> now,
                          preferences |-> [theme |-> "dark", language |-> "en",
                                           notifications |-> TRUE]])
                 visitCount == SessionGet(r1, "visit_count", 0) + 1
             IN  SessionManagerDone(SessionPut(SessionPut(r1,
                   "visit_count", visitCount), "last_visit", now))
      ELSE IF Includes(route, SessionUrl(<<"/shopping", "-cart">>))
        THEN LET cart == Append(SessionGet(r, "cart", <<>>), NewItem(now))
             IN  SessionManagerDone(SessionFlash(SessionPut(SessionPut(r,
                   "cart", cart), "cart_updated_at", now),
                   "cart_message", "Added item to your cart!"))
      ELSE IF Includes(route, SessionUrl(<<"/flash">>))
        THEN SessionManagerDone(FlashExamples(r))
      ELSE IF Includes(route, SessionUrl(<<"/update", "-preferences">>))
        THEN IF Has(r.sess, "user")
               THEN SessionManagerDone(SessionFlash(
                      SessionPut(r, "user", TogglePreferences(r.sess.user)),
                      "success", "Preferences updated successfully!"))
               ELSE SessionManagerDone(SessionFlash(r, "error", "No user session found"))
      ELSE IF Includes(route, SessionUrl(<<"/regenerate">>))
        THEN SessionManagerDone(SessionFlash(SessionRegenerate(r),
               "info", "Session regenerated for security"))
      ELSE IF Includes(route, SessionUrl(<<"/clear", "-cart">>))
        THEN SessionManagerDone(SessionFlash(
               SessionForget(SessionForget(r, "cart"), "cart_updated_at"),
               "success", "Shopping cart cleared"))
      ELSE IF Includes(route, SessionUrl(<<"/logout">>))
        THEN SessionManagerDone(SessionFlash(
               SessionForget(SessionForget(SessionForget(SessionForget(SessionForget(r,
                 "user"), "visit_count"), "last_visit"), "cart"), "cart_updated_at"),
               "info", "You have been logged out"))
      ELSE IF Includes(route, SessionUrl(<<"/destroy">>))
        THEN SessionManagerDone(SessionClear(r))
      ELSE SessionManagerDone(r)


(***************************************************************************)
(* Controllers.  A handler answers and returns to the last middleware of   *)
(* the chain, or throws.                                                   *)
(***************************************************************************)
\* return response.status(code).json(fields)
Respond(r, code, fields) ==
  [Json(Status(r, code), fields) EXCEPT
     !.trace = Append(@, <<"handler", r.pos>>), !.phase = "up", !.pos = @ - 1]

RequestData(r) == [method |-> r.method, url |-> Url(r)]

CartOfCookie(r) == JsonParseOrEmpty(RequestCookie(r, "shopping_cart", JsonText(Array(<<>>))))

SpecificCookies(r) ==
  [n \in {x \in {"user_preference", "visit_count", "last_visit", "shopping_cart", "auth_token"} :
             HasCookie(r, x)} |->
     IF n = "auth_token" THEN "[HIDDEN FOR SECURITY]" ELSE RequestCookie(r, n, "null")]

RunHandler(r) ==
  LET handler == Routes[r.route].handler
  IN  CASE handler = "home" ->
             Respond(r, r.status, [message |-> "AdonisJS Middleware Learning Lab"])
        [] handler = "DemoController.public" ->
             Respond(r, r.status, [message |-> "This is a public endpoint", data |-> RequestData(r)])
        [] handler = "DemoController.protected" ->
             IF ~CtxHas(r, "user") THEN Throw(r, "handler")     \* user.name of undefined
             ELSE Respond(r, r.status,
                    [message |-> "This is a protected endpoint",
                     user |-> [name |-> r.ctx.user.name, email |-> r.ctx.user.email,
                               role |-> r.ctx.user.role],
                     data |-> RequestData(r)])
        [] handler = "DemoController.admin" ->
             IF ~CtxHas(r, "user") THEN Throw(r, "handler")     \* user.name of undefined
             ELSE Respond(r, r.status,
                    [message |-> "This is an admin-only endpoint",
                     admin |-> [name |-> r.ctx.user.name, role |-> r.ctx.user.role,
                                permissions |-> IF CtxHas(r, "adminPermissions")
                                                  THEN r.ctx.adminPermissions ELSE <<>>]])
        [] handler = "DemoController.rateLimited" ->
             Respond(r, r.status,
                    [message |-> "This endpoint has strict rate limiting",
                     request_info |-> [ip |-> r.ip, method |-> r.method, url |-> Url(r)]])
        [] handler = "DemoController.betaFeature" ->
             Respond(r, r.status,
                    [message |-> "This is a beta feature",
                     feature_info |-> IF CtxHas(r, "feature")
                                        THEN [name |-> r.ctx.feature.name,
                                              enabled |-> r.ctx.feature.enabled,
                                              rolloutPercentage |-> r.ctx.feature.rolloutPercentage]
                                        ELSE EmptyMap])
        [] handler = "DemoController.deviceAware" ->
             Respond(r, r.status,
                    [message |-> "This endpoint adapts to your device",
                     device_detection |-> IF CtxHas(r, "device") THEN r.ctx.device ELSE "undefined",
                     optimized_content |-> IF CtxHas(r, "device") /\ r.ctx.device.isMobile
                                             THEN [layout |-> "mobile"] ELSE [layout |-> "desktop"]])
        [] handler = "DemoController.multipleMiddleware" ->
             Respond(r, r.status,
                    [message |-> "This endpoint uses multiple middleware",
                     middleware_data |->
                       [user |-> IF CtxHas(r, "user")
                                   THEN [name |-> r.ctx.user.name, role |-> r.ctx.user.role]
                                   ELSE "null",
                        device |-> IF CtxHas(r, "device")
                                     THEN [type |-> r.ctx.device.type, browser |-> r.ctx.device.browser]
                                     ELSE "null",
                        feature |-> IF CtxHas(r, "feature")
                                      THEN [name |-> r.ctx.feature.name,
                                            enabled |-> r.ctx.feature.enabled]
                                      ELSE "null"]])
        [] handler = "DemoController.create" ->
             Respond(r, 201,
                    [message |-> "Data created successfully",
                     created_by |-> IF CtxHas(r, "user") THEN r.ctx.user.name ELSE "anonymous",
                     created_at |-> now])
        [] handler = "DemoController.error" ->
             Throw(r, "handler")       \* throw new Error('Intentional error ...')
        [] handler = "CookieSessionController.index" ->
             Respond(r, r.status, [message |-> "Cookie & Session Learning Lab"])
        [] handler = "CookieSessionController.cookiesDemo" ->
             Respond(r, r.status,
                    [message |-> "Cookie Management Demo",
                     cookie_information |-> r.cookieInfo,
                     specific_cookies |-> SpecificCookies(r)])
        [] handler = "CookieSessionController.sessionsDemo" ->
             Respond(r, r.status,
                    [message |-> "Session Management Demo",
                     session_information |->
                       [session_id |-> r.sessionInfo.id,
                        visit_count |-> r.sessionInfo.visitCount,
                        last_visit |-> r.sessionInfo.lastVisit,
                        cart_items_count |-> r.sessionInfo.cartItems,
                        user_authenticated |-> r.sessionInfo.hasUser],
                     flash_messages |-> r.sessionInfo.flashMessages])
        [] handler = "CookieSessionController.compareApproaches" ->
             IF CartOfCookie(r).type = "null" THEN Throw(r, "handler")   \* null.length
             ELSE Respond(r, r.status,
                    [message |-> "Cookie vs Session Comparison",
                     cookie_total_items |-> IF CartOfCookie(r).type = "array"
                                              THEN Len(CartOfCookie(r).items) ELSE "undefined",
                     session_total_items |-> Len(SessionGet(r, "cart", <<>>)),
                     session_user_stored |-> Has(r.sess, "user")])
        [] handler = "CookieSessionController.shoppingCartDemo" ->
             IF CartOfCookie(r).type # "array" THEN Throw(r, "handler")  \* .length / .reduce
             ELSE Respond(r, r.status,
                    [message |-> "Shopping Cart Comparison Demo",
                     cookie_total_items |-> Len(CartOfCookie(r).items),
                     session_total_items |-> Len(SessionGet(r, "cart", <<>>))])
        [] handler = "CookieSessionController.flashMessagesDemo" ->
             Respond(r, r.status,
                    [message |-> "Flash Messages Demo",
                     flash_messages |-> ReadFlashMessages(r)])


(***************************************************************************)
(* The server: receiving a request, the steps of its chain, the response.  *)
(***************************************************************************)
Request(route, method, ip, userAgent, authorization, tokenInput, origin, contentType, bodyReadFails) ==
  [route |-> route, method |-> method, ip |-> ip, userAgent |-> userAgent,
   authorization |-> authorization, tokenInput |-> tokenInput, origin |-> origin,
   contentType |-> contentType, bodyReadFails |-> bodyReadFails]

\* the context the framework builds for a request: the client's cookies, the
\* session as stored, an empty response
NewRequest(req) ==
  Spread(req,
    [phase |-> "down", pos |-> 1, id |-> served + 1,
     ctx |-> EmptyMap, loc |-> EmptyMap,
     status |-> 200, headers |-> EmptyMap, resBody |-> NoBody,
     trace |-> <<>>, rejectedBy |-> 0, thrownAt |-> 0, uncaught |-> FALSE, ordinal |-> 0,
     previous |-> history.last, expectAbsent |-> history.cleared,
     cookies |-> jar, setCookies |-> EmptyMap, cookieInfo |-> EmptyMap,
     sessionId |-> sessStore.id, sess |-> InitiateSession(sessStore),
     flashMessages |-> PullFlashMessages(sessStore), responseFlash |-> EmptyMap,
     regenerated |-> FALSE, sessionInfo |-> EmptyMap])

\* what the cookie guide says a cookie route does to the browser's cookies
CookiesSetBy(route) ==
  CASE route = "cookies.basic"        -> {"user_preference"}
    [] route = "cookies.secure"       -> {"auth_token"}
    [] route = "cookies.tracking"     -> {"visit_count", "last_visit"}
    [] route = "cookies.shoppingCart" -> {"shopping_cart"}
    [] OTHER                          -> {}

CookiesClearedBy(route) ==
  CASE route = "cookies.clear"     -> {"user_preference", "visit_count", "last_visit",
                                       "shopping_cart"}
    [] route = "cookies.clearAuth" -> {"auth_token"}
    [] OTHER                       -> {}

\* history after a request to route: the last route that went through the
\* cookie or session manager ("" for any other route), the cookies that were
\* cleared and not set again since, the requests to the session cart since
\* the last clear-cart, logout or destroy, and whether a logout or destroy
\* was the last of logout, destroy, init and shopping-cart
Remember(h, route) ==
  [last |-> IF Uses(route, "cookies") \/ Uses(route, "sessions") THEN route ELSE "",
   cleared |-> (h.cleared \cup CookiesClearedBy(route)) \ CookiesSetBy(route),
   cartAdds |-> CASE route = "sessions.shoppingCart" -> h.cartAdds + 1
                  [] route \in {"sessions.clearCart", "sessions.logout", "sessions.destroy"} -> 0
                  [] OTHER -> h.cartAdds,
   loggedOut |-> CASE route \in {"sessions.logout", "sessions.destroy"} -> TRUE
                   [] route \in {"sessions.init", "sessions.shoppingCart"} -> FALSE
                   [] OTHER -> h.loggedOut]

Receive(s, req) ==
  /\ inflight[s] = Idle
  /\ inflight' = [inflight EXCEPT ![s] = NewRequest(req)]
  /\ served' = served + 1
  /\ history' = Remember(history, req.route)
  /\ UNCHANGED <<now, requests, jar, sessStore, window>>

\* a step of the request in slot s that touches nothing but the request
Step(s, r) ==
  /\ inflight' = [inflight EXCEPT ![s] = r]
  /\ UNCHANGED <<now, requests, jar, sessStore, served, window, history>>

RequestLoggerBefore(s) ==
  /\ AtBefore(inflight[s], "RequestLogger")
  /\ Step(s, CallNext(inflight[s]))

RequestLoggerReturn(s) ==
  /\ AtAfter(inflight[s], "RequestLogger")
  /\ Step(s, Return(inflight[s]))

CorsBefore(s) ==
  /\ AtBefore(inflight[s], "Cors")
  /\ Step(s, CorsHandle(inflight[s]))

CorsReturn(s) ==
  /\ AtAfter(inflight[s], "Cors")
  /\ Step(s, CorsAfter(inflight[s]))

SecurityHeadersBefore(s) ==
  /\ AtBefore(inflight[s], "SecurityHeaders")
  /\ Step(s, CallNext(inflight[s]))

SecurityHeadersReturn(s) ==
  /\ AtAfter(inflight[s], "SecurityHeaders")
  /\ Step(s, SecurityHeadersAfter(inflight[s]))

BodyParserBefore(s) ==
  /\ AtBefore(inflight[s], "BodyParser")
  /\ Step(s, CallNext(inflight[s]))

BodyParserReturn(s) ==
  /\ AtAfter(inflight[s], "BodyParser")
  /\ Step(s, Return(inflight[s]))

AuthBefore(s) ==
  /\ AtBefore(inflight[s], "auth")
  /\ Step(s, AuthHandle(inflight[s]))

AuthReturn(s) ==
  /\ AtAfter(inflight[s], "auth")
  /\ Step(s, Return(inflight[s]))

AdminBefore(s) ==
  /\ AtBefore(inflight[s], "admin")
  /\ Step(s, AdminHandle(inflight[s]))

AdminReturn(s) ==
  /\ AtAfter(inflight[s], "admin")
  /\ Step(s, Return(inflight[s]))

FeatureFlagBefore(s) ==
  /\ AtBefore(inflight[s], "feature")
  /\ Step(s, FeatureFlagHandle(inflight[s], Param(inflight[s])))

FeatureFlagReturn(s) ==
  /\ AtAfter(inflight[s], "feature")
  /\ Step(s, FeatureFlagAfter(inflight[s]))

DeviceDetectorBefore(s) ==
  /\ AtBefore(inflight[s], "device")
  /\ Step(s, DeviceDetectorHandle(inflight[s]))

DeviceDetectorReturn(s) ==
  /\ AtAfter(inflight[s], "device")
  /\ Step(s, DeviceDetectorAfter(inflight[s]))

ResponseTransformerBefore(s) ==
  /\ AtBefore(inflight[s], "transform")
  /\ \E requestId \in RequestIds : Step(s, ResponseTransformerHandle(inflight[s], requestId))

\* downstream returned, or threw into the catch block
ResponseTransformerReturn(s) ==
  /\ inflight[s].phase \in {"up", "throw"}
  /\ inflight[s].pos >= 1
  /\ ChainOf(inflight[s])[inflight[s].pos][1] = "transform"
  /\ Step(s, ResponseTransformerAfter(inflight[s]))

\* the window of a key as the client counts it: opened by the first request,
\* over once more than windowMs have passed since it opened
ClientWindow(w, key, limit, t) ==
  IF ~Has(w, key) \/ t - w[key].open > limit.windowMs
    THEN [open |-> t, ord |-> 1, admitted |-> 0,
          prior |-> IF Has(w, key) THEN w[key].ord ELSE 0]
    ELSE [w[key] EXCEPT !.ord = @ + 1]

RateLimitBefore(s) ==
  /\ AtBefore(inflight[s], "rateLimit")
  /\ LET r == inflight[s]
         client == <<r.ip, Param(r)>>
         result == RateLimitHandle(r, requests, now)
         w == ClientWindow(window, client, limits[Param(r)], now)
     IN  /\ requests' = result.table
         /\ window' = Put(window, client,
                          [w EXCEPT !.admitted = @ + IF result.r.rejectedBy = 0 THEN 1 ELSE 0])
         /\ inflight' = [inflight EXCEPT ![s] = [result.r EXCEPT !.ordinal = w.ord]]
  /\ UNCHANGED <<now, jar, sessStore, served, history>>

RateLimitReturn(s) ==
  /\ AtAfter(inflight[s], "rateLimit")
  /\ Step(s, Return(inflight[s]))

CookieManagerBefore(s) ==
  /\ AtBefore(inflight[s], "cookies")
  /\ Step(s, CookieManagerHandle(inflight[s]))

CookieManagerReturn(s) ==
  /\ AtAfter(inflight[s], "cookies")
  /\ Step(s, Return(inflight[s]))

SessionManagerBefore(s) ==
  /\ AtBefore(inflight[s], "sessions")
  /\ \E randomId \in RandomUserIds : Step(s, SessionManagerHandle(inflight[s], randomId))

SessionManagerReturn(s) ==
  /\ AtAfter(inflight[s], "sessions")
  /\ Step(s, Return(inflight[s]))

Handler(s) ==
  /\ AtHandler(inflight[s])
  /\ Step(s, RunHandler(inflight[s]))

\* an exception passes through a middleware that does not catch it: the code
\* after its `await next()` is skipped
Propagate(s) ==
  /\ inflight[s].phase = "throw"
  /\ inflight[s].pos >= 1
  /\ ChainOf(inflight[s])[inflight[s].pos][1] # "transform"
  /\ Step(s, [inflight[s] EXCEPT !.pos = @ - 1])

\* the chain has unwound: the framework answers an uncaught exception with
\* 500, commits the session and sends the response; the client stores the cookies
SendResponse(s) ==
  /\ inflight[s].phase \in {"up", "throw"}
  /\ inflight[s].pos = 0
  /\ LET r == inflight[s]
     IN  /\ inflight' = [inflight EXCEPT ![s] =
                IF r.phase = "throw"
                  THEN [Json(Status(r, 500), [message |-> "Internal Server Error"])
                          EXCEPT !.phase = "done", !.uncaught = TRUE]
                  ELSE [r EXCEPT !.phase = "done"]]
         /\ jar' = StoreCookies(jar, r.setCookies)
         /\ sessStore' = CommitSession(sessStore, r)
  /\ UNCHANGED <<now, requests, served, window, history>>

\* the framework drops the context of an answered request
Close(s) ==
  /\ inflight[s].phase = "done"
  /\ inflight' = [inflight EXCEPT ![s] = Idle]
  /\ UNCHANGED <<now, requests, jar, sessStore, served, window, history>>

\* time passes between requests
TickSteps == {30000, 30001}

Tick ==
  /\ \A s \in Slots : ~Busy(inflight[s])
  /\ \E d \in TickSteps :
       /\ now + d <= MaxTime
       /\ now' = now + d
  /\ UNCHANGED <<requests, inflight, jar, sessStore, served, window, history>>

Init ==
  /\ now = 0
  /\ requests = EmptyMap
  /\ inflight = [s \in Slots |-> Idle]
  /\ jar = EmptyMap
  /\ sessStore = [id |-> 1, data |-> EmptyMap]
  /\ served = 0
  /\ window = EmptyMap
  /\ history = [last |-> "", cleared |-> {}, cartAdds |-> 0, loggedOut |-> FALSE]

(***************************************************************************)
(* Spec: the middleware pipeline of the /demo, /premium and /api/v1 routes *)
(***************************************************************************)
Origins == {""}

\* pairs <<Authorization header, `token` input>>
Credentials ==
  { <<Undefined, Undefined>>,
    <<Undefined, Str(UserToken)>>,
    <<Undefined, ArrayValue>>,
    <<Str(Bearer \o UserToken), Undefined>>,
    <<Str(Bearer \o AdminToken), Undefined>>,
    <<Str(Bearer \o DemoToken), Undefined>>,
    <<Str(AdminToken), Undefined>>,
    <<Str(Bearer \o BogusToken), Str(UserToken)>>,
    <<Str(<<"user-token-", "Bearer ", "123">>), Undefined>> }

\* the body is read only by the response transformer
BodyInputs(route) ==
  IF Uses(route, "transform")
    THEN {<<"none", FALSE>>, <<"application/json", FALSE>>, <<"application/json", TRUE>>}
    ELSE {<<"none", FALSE>>}

PipelineRequests ==
  UNION { { Request(route, method, ip, ua, cred[1], cred[2], origin, body[1], body[2]) :
              method \in {PipelineRoutes[route].method, "OPTIONS"},
              ip \in IPs, ua \in UserAgents, cred \in Credentials, origin \in Origins,
              body \in BodyInputs(route) } :
          route \in DOMAIN PipelineRoutes }

ReceivePipeline ==
  /\ served < MaxRequests
  /\ \E s \in Serial : \E req \in PipelineRequests : Receive(s, req)

Next ==
  \/ ReceivePipeline
  \/ \E s \in Slots :
       \/ RequestLoggerBefore(s) \/ RequestLoggerReturn(s)
       \/ CorsBefore(s) \/ CorsReturn(s)
       \/ SecurityHeadersBefore(s) \/ SecurityHeadersReturn(s)
       \/ BodyParserBefore(s) \/ BodyParserReturn(s)
       \/ AuthBefore(s) \/ AuthReturn(s)
       \/ AdminBefore(s) \/ AdminReturn(s)
       \/ RateLimitBefore(s) \/ RateLimitReturn(s)
       \/ DeviceDetectorBefore(s) \/ DeviceDetectorReturn(s)
       \/ FeatureFlagBefore(s) \/ FeatureFlagReturn(s)
       \/ ResponseTransformerBefore(s) \/ ResponseTransformerReturn(s)
       \/ Handler(s)
       \/ Propagate(s)
       \/ SendResponse(s)
       \/ Close(s)

Spec == Init /\ [][Next]_vars


(***************************************************************************)
(* SpecRate: one and two clients on the strict tier while time passes.     *)
(* /demo/rate-limited and /api/v1/process share the tier.                  *)
(***************************************************************************)
Anonymous(route, ip) ==
  Request(route, Routes[route].method, ip, UaAbsent, Undefined, Undefined, "", "none", FALSE)

RateRequests ==
  { Anonymous("demo.rateLimited", ip) : ip \in IPs }
    \cup { [Anonymous("api.process", IpLoopback) EXCEPT !.authorization = a] :
             a \in {Undefined, Str(Bearer \o UserToken)} }

ReceiveRate ==
  /\ served < MaxRateRequests
  /\ \E s \in Serial : \E req \in RateRequests : Receive(s, req)

NextRate ==
  \/ ReceiveRate
  \/ Tick
  \/ \E s \in Slots :
       \/ RequestLoggerBefore(s) \/ RequestLoggerReturn(s)
       \/ CorsBefore(s) \/ CorsReturn(s)
       \/ SecurityHeadersBefore(s) \/ SecurityHeadersReturn(s)
       \/ BodyParserBefore(s) \/ BodyParserReturn(s)
       \/ AuthBefore(s) \/ AuthReturn(s)
       \/ RateLimitBefore(s) \/ RateLimitReturn(s)
       \/ ResponseTransformerBefore(s) \/ ResponseTransformerReturn(s)
       \/ Handler(s)
       \/ SendResponse(s)
       \/ Close(s)

SpecRate == Init /\ [][NextRate]_vars

(***************************************************************************)
(* SpecSession: one browser on the session routes.                         *)
(***************************************************************************)
SessionRequests ==
  { Anonymous(route, IpLoopback) :
      route \in (DOMAIN SessionRoutes)
                  \cup {"cookieSession.flashMessages", "cookieSession.overview"} }

ReceiveSession ==
  /\ served < MaxSessionRequests
  /\ \E s \in Serial : \E req \in SessionRequests : Receive(s, req)

NextSession ==
  \/ ReceiveSession
  \/ \E s \in Slots :
       \/ RequestLoggerBefore(s) \/ RequestLoggerReturn(s)
       \/ CorsBefore(s) \/ CorsReturn(s)
       \/ SecurityHeadersBefore(s) \/ SecurityHeadersReturn(s)
       \/ BodyParserBefore(s) \/ BodyParserReturn(s)
       \/ SessionManagerBefore(s) \/ SessionManagerReturn(s)
       \/ Handler(s)
       \/ SendResponse(s)
       \/ Close(s)

SpecSession == Init /\ [][NextSession]_vars

(***************************************************************************)
(* SpecCookie: one browser on the cookie routes and the comparison routes. *)
(***************************************************************************)
CookieRequests ==
  { Anonymous(route, IpLoopback) :
      route \in (DOMAIN CookieRoutes)
                  \cup {"cookieSession.compare", "cookieSession.shoppingCartDemo"} }

ReceiveCookie ==
  /\ served < MaxCookieRequests
  /\ \E s \in Serial : \E req \in CookieRequests : Receive(s, req)

NextCookie ==
  \/ ReceiveCookie
  \/ \E s \in Slots :
       \/ RequestLoggerBefore(s) \/ RequestLoggerReturn(s)
       \/ CorsBefore(s) \/ CorsReturn(s)
       \/ SecurityHeadersBefore(s) \/ SecurityHeadersReturn(s)
       \/ BodyParserBefore(s) \/ BodyParserReturn(s)
       \/ CookieManagerBefore(s) \/ CookieManagerReturn(s)
       \/ SessionManagerBefore(s) \/ SessionManagerReturn(s)
       \/ Handler(s)
       \/ SendResponse(s)
       \/ Close(s)

SpecCookie == Init /\ [][NextCookie]_vars


(***************************************************************************)
(* SpecCart: GET /demo/cookies/shopping-cart and /demo/cookies/read for a  *)
(* client that presents a shopping_cart cookie of its choosing (or the one *)
(* the server gave it): a text that is not JSON, JSON that is not an       *)
(* array, an array of zero or one item, or a cookie without a valid        *)
(* signature.                                                              *)
(***************************************************************************)
\* JSON.parse throws on the text
MalformedText == [valid |-> FALSE, value |-> [type |-> "none", items |-> <<>>]]

\* 5, null, {"a": 1}
NonArrayValues == {[type |-> t, items |-> <<>>] : t \in {"number", "null", "object"}}

CartTexts ==
  {MalformedText} \cup {JsonText(v) : v \in NonArrayValues}
                  \cup {JsonText(Array(<<>>)), JsonText(Array(<<NewItem(0)>>))}

\* the Cookie header the client may send when its jar is j
CartJars(j) ==
  {j, Remove(j, "shopping_cart")}
    \cup {Put(j, "shopping_cart", SignedCookie(text)) : text \in CartTexts}
    \cup {Put(j, "shopping_cart", [SignedCookie(JsonText(Array(<<NewItem(0)>>)))
                                     EXCEPT !.signed = FALSE])}

ReceiveCart ==
  /\ served < MaxCartRequests
  /\ \E s \in Serial :
       \E route \in {"cookies.shoppingCart", "cookies.read"} :
         \E cookies \in CartJars(jar) :
           /\ inflight[s] = Idle
           /\ inflight' = [inflight EXCEPT
                             ![s] = [NewRequest(Anonymous(route, IpLoopback))
                                       EXCEPT !.cookies = cookies]]
           /\ jar' = cookies
           /\ served' = served + 1
           /\ history' = Remember(history, route)
           /\ UNCHANGED <<now, requests, sessStore, window>>

NextCart ==
  \/ ReceiveCart
  \/ Tick
  \/ \E s \in Slots :
       \/ RequestLoggerBefore(s) \/ RequestLoggerReturn(s)
       \/ CorsBefore(s) \/ CorsReturn(s)
       \/ SecurityHeadersBefore(s) \/ SecurityHeadersReturn(s)
       \/ BodyParserBefore(s) \/ BodyParserReturn(s)
       \/ CookieManagerBefore(s) \/ CookieManagerReturn(s)
       \/ Handler(s)
       \/ Propagate(s)
       \/ SendResponse(s)
       \/ Close(s)

SpecCart == Init /\ [][NextCart]_vars


(***************************************************************************)
(* SpecCompare: one browser on the two comparison routes, between requests *)
(* that fill the cookie cart, the session cart and the flash messages.     *)
(***************************************************************************)
ComparisonPair == {"cookieSession.compare", "cookieSession.shoppingCartDemo"}

CompareRequests ==
  { Anonymous(route, IpLoopback) :
      route \in ComparisonPair \cup {"cookies.shoppingCart", "sessions.shoppingCart",
                                      "sessions.flash"} }

ReceiveCompare ==
  /\ served < MaxCompareRequests
  /\ \E s \in Serial : \E req \in CompareRequests : Receive(s, req)

NextCompare ==
  \/ ReceiveCompare
  \/ Tick
  \/ \E s \in Slots :
       \/ RequestLoggerBefore(s) \/ RequestLoggerReturn(s)
       \/ CorsBefore(s) \/ CorsReturn(s)
       \/ SecurityHeadersBefore(s) \/ SecurityHeadersReturn(s)
       \/ BodyParserBefore(s) \/ BodyParserReturn(s)
       \/ CookieManagerBefore(s) \/ CookieManagerReturn(s)
       \/ SessionManagerBefore(s) \/ SessionManagerReturn(s)
       \/ Handler(s)
       \/ SendResponse(s)
       \/ Close(s)

SpecCompare == Init /\ [][NextCompare]_vars


(***************************************************************************)
(* SpecStage: Cors, the feature gate and the response transformer as       *)
(* stages of any chain.  Requests come with and without an Origin header;  *)
(* on the routes that use the gate or the transformer the gate is also     *)
(* called with a flag name other than the route's, and the handler may     *)
(* also answer with a body that is not an object, or with none.            *)
(***************************************************************************)
FlagNames == DOMAIN features \cup {"dark-mode"}

DownstreamBodies == {NoBody, StringBody, Object([message |-> "ok"])}

StageCredentials ==
  {<<Undefined, Undefined>>, <<Undefined, ArrayValue>>,
   <<Str(Bearer \o UserToken), Undefined>>, <<Str(Bearer \o AdminToken), Undefined>>}

\* no Origin header, an allowed origin and one that is not allowed
StageOrigins == {"", "http://localhost:3000", "https://example.org"}

\* content type and whether request.body() throws
StageBodyInputs(route) ==
  IF Uses(route, "transform")
    THEN BodyInputs(route)
           \cup {<<"application/json; charset=utf-8", TRUE>>, <<"text/plain", TRUE>>}
    ELSE BodyInputs(route)

StageRequests ==
  UNION { { Request(route, method, ip, ua, cred[1], cred[2], origin, body[1], body[2]) :
              method \in {PipelineRoutes[route].method, "OPTIONS"},
              ip \in IPs, ua \in UserAgents, cred \in StageCredentials,
              origin \in StageOrigins, body \in StageBodyInputs(route) } :
          route \in {x \in DOMAIN PipelineRoutes : Uses(x, "transform") \/ Uses(x, "feature")} }

ReceiveStage ==
  /\ served < MaxStageRequests
  /\ \E s \in Serial : \E req \in StageRequests : Receive(s, req)

\* handle(ctx, next, featureName) called with any flag name
FeatureFlagCalled(s) ==
  /\ AtBefore(inflight[s], "feature")
  /\ \E featureName \in FlagNames : Step(s, FeatureFlagHandle(inflight[s], featureName))

\* a handler that answers response.status(code) with a body of any kind
HandlerAnswers(s) ==
  /\ AtHandler(inflight[s])
  /\ \E code \in {200, 201} : \E body \in DownstreamBodies :
       Step(s, [Respond(inflight[s], code, EmptyMap) EXCEPT !.resBody = body])

NextStage ==
  \/ ReceiveStage
  \/ \E s \in Slots :
       \/ RequestLoggerBefore(s) \/ RequestLoggerReturn(s)
       \/ CorsBefore(s) \/ CorsReturn(s)
       \/ SecurityHeadersBefore(s) \/ SecurityHeadersReturn(s)
       \/ BodyParserBefore(s) \/ BodyParserReturn(s)
       \/ AuthBefore(s) \/ AuthReturn(s)
       \/ AdminBefore(s) \/ AdminReturn(s)
       \/ RateLimitBefore(s) \/ RateLimitReturn(s)
       \/ DeviceDetectorBefore(s) \/ DeviceDetectorReturn(s)
       \/ FeatureFlagCalled(s) \/ FeatureFlagReturn(s)
       \/ ResponseTransformerBefore(s) \/ ResponseTransformerReturn(s)
       \/ Handler(s) \/ HandlerAnswers(s)
       \/ Propagate(s)
       \/ SendResponse(s)
       \/ Close(s)

SpecStage == Init /\ [][NextStage]_vars


(***************************************************************************)
(* SpecRace: one client sends requests to the strict tier without waiting  *)
(* for the answers; the server processes two at a time, interleaved at the *)
(* points where a middleware awaits next().                                *)
(***************************************************************************)
ReceiveRace ==
  /\ served < MaxRaceRequests
  /\ \E s \in Slots : Receive(s, Anonymous("demo.rateLimited", IpLoopback))

NextRace ==
  \/ ReceiveRace
  \/ \E s \in Slots :
       \/ RequestLoggerBefore(s) \/ RequestLoggerReturn(s)
       \/ CorsBefore(s) \/ CorsReturn(s)
       \/ SecurityHeadersBefore(s) \/ SecurityHeadersReturn(s)
       \/ BodyParserBefore(s) \/ BodyParserReturn(s)
       \/ RateLimitBefore(s) \/ RateLimitReturn(s)
       \/ Handler(s)
       \/ SendResponse(s)
       \/ Close(s)

SpecRace == Init /\ [][NextRace]_vars


(***************************************************************************)
(* SpecRollout: two clients, with and without a token, on the routes       *)
(* behind a feature gate, two requests in process at a time while time     *)
(* passes between them; an answered request stays in its slot until the    *)
(* server drops it.                                                        *)
(***************************************************************************)
RolloutRequests ==
  { [Anonymous(route, ip) EXCEPT !.userAgent = ua, !.authorization = a] :
      route \in {"demo.beta", "demo.experimental", "demo.multiple"},
      ip \in IPs, ua \in UserAgents, a \in {Undefined, Str(Bearer \o UserToken)} }

ReceiveRollout ==
  /\ served < MaxRolloutRequests
  /\ \E s \in Slots : \E req \in RolloutRequests : Receive(s, req)

NextRollout ==
  \/ ReceiveRollout
  \/ Tick
  \/ \E s \in Slots :
       \/ RequestLoggerBefore(s) \/ RequestLoggerReturn(s)
       \/ CorsBefore(s) \/ CorsReturn(s)
       \/ SecurityHeadersBefore(s) \/ SecurityHeadersReturn(s)
       \/ BodyParserBefore(s) \/ BodyParserReturn(s)
       \/ AuthBefore(s) \/ AuthReturn(s)
       \/ DeviceDetectorBefore(s) \/ DeviceDetectorReturn(s)
       \/ FeatureFlagBefore(s) \/ FeatureFlagReturn(s)
       \/ Handler(s)
       \/ SendResponse(s)
       \/ Close(s)

SpecRollout == Init /\ [][NextRollout]_vars


(***************************************************************************)
(* SpecDevice: the routes with the device detector, for clients of every   *)
(* kind of device; the handler may also answer with a body that is not an  *)
(* object, or with none.                                                   *)
(***************************************************************************)
UaIPad == <<105, 80, 97, 100>>                        \* "iPad"
UaAndroidTablet == <<65, 110, 100, 114, 111, 105, 100, 32, 84, 56, 55, 48>>   \* "Android T870"
UaAndroidPhone == <<65, 110, 100, 114, 111, 105, 100, 32, 77, 111, 98, 105, 108, 101>>   \* "Android Mobile"
UaSmartTv == <<83, 109, 97, 114, 116, 84, 86>>                \* "SmartTV"
UaWindows == <<87, 105, 110, 100, 111, 119, 115, 32, 67, 104, 114, 111, 109, 101>>   \* "Windows Chrome"

DeviceUserAgents ==
  {UaAbsent, UaIPhone, UaIPad, UaAndroidTablet, UaAndroidPhone, UaSmartTv, UaWindows}

DeviceRequests ==
  { [Anonymous(route, ip) EXCEPT !.userAgent = ua, !.authorization = a] :
      route \in {"demo.device", "demo.multiple"},
      ip \in IPs, ua \in DeviceUserAgents, a \in {Undefined, Str(Bearer \o UserToken)} }

ReceiveDevice ==
  /\ served < MaxDeviceRequests
  /\ \E s \in Serial : \E req \in DeviceRequests : Receive(s, req)

NextDevice ==
  \/ ReceiveDevice
  \/ \E s \in Slots :
       \/ RequestLoggerBefore(s) \/ RequestLoggerReturn(s)
       \/ CorsBefore(s) \/ CorsReturn(s)
       \/ SecurityHeadersBefore(s) \/ SecurityHeadersReturn(s)
       \/ BodyParserBefore(s) \/ BodyParserReturn(s)
       \/ AuthBefore(s) \/ AuthReturn(s)
       \/ DeviceDetectorBefore(s) \/ DeviceDetectorReturn(s)
       \/ FeatureFlagBefore(s) \/ FeatureFlagReturn(s)
       \/ Handler(s) \/ HandlerAnswers(s)
       \/ SendResponse(s)
       \/ Close(s)

SpecDevice == Init /\ [][NextDevice]_vars


(***************************************************************************)
(* SpecHash: getUserRolloutId run round by round on the seeds of a set of  *)
(* clients, one of which hashes to -2^31; a slot holds the locals of the   *)
(* call.                                                                   *)
(***************************************************************************)
UaMinInt == <<48, 110, 121, 120, 118, 113, 105>>    \* "0nyxvqi": "::10nyxvqi" hashes to -2^31

HashUserAgents == DeviceUserAgents \cup {UaMinInt}

\* const seed = ip + userAgent; let hash = 0
HashCall(ip, userAgent) ==
  [phase |-> "hashing", ip |-> ip, userAgent |-> userAgent, seed |-> ip \o userAgent,
   i |-> 1, hash |-> Zero32, rolloutId |-> Zero32]

InitHash ==
  /\ now = 0
  /\ requests = EmptyMap
  /\ inflight \in {[s \in Slots |-> IF s \in Serial THEN HashCall(ip, userAgent) ELSE Idle] :
                      ip \in IPs, userAgent \in HashUserAgents}
  /\ jar = EmptyMap
  /\ sessStore = [id |-> 1, data |-> EmptyMap]
  /\ served = 0
  /\ window = EmptyMap
  /\ history = [last |-> "", cleared |-> {}, cartAdds |-> 0, loggedOut |-> FALSE]

\* one round of the loop
HashRound(s) ==
  /\ inflight[s].phase = "hashing"
  /\ inflight[s].i <= Len(inflight[s].seed)
  /\ Step(s, [inflight[s] EXCEPT !.hash = HashFrom(<<inflight[s].seed[inflight[s].i]>>, 1, @),
                                 !.i = @ + 1])

\* return Math.abs(hash)
HashReturn(s) ==
  /\ inflight[s].phase = "hashing"
  /\ inflight[s].i > Len(inflight[s].seed)
  /\ Step(s, [inflight[s] EXCEPT !.phase = "hashed", !.rolloutId = Abs32(inflight[s].hash)])

NextHash == \E s \in Slots : HashRound(s) \/ HashReturn(s)

SpecHash == InitHash /\ [][NextHash]_vars


(***************************************************************************)
(* Properties.  A property speaks of the request in a slot through what    *)
(* the client sent (route, method, headers, inputs) and what it got back.  *)
(***************************************************************************)
\* the request ran its route handler
Handled(r) == \E i \in 1..Len(r.trace) : r.trace[i][1] = "handler"

\* position of the named middleware in the route's stack, 0 when it has none
PositionOf(route, name) ==
  IF Uses(route, name)
    THEN CHOOSE i \in 1..Len(Chain(route)) : Chain(route)[i][1] = name
    ELSE 0

\* the request is one the route serves (not a preflight)
Matches(r, route) == r.phase # "idle" /\ r.route = route /\ r.method = Routes[route].method

Answered(r, route) == Matches(r, route) /\ r.phase = "done"

\* the credential the client presents: the Authorization header, or the
\* `token` input when it sends no header
Credential(r) == IF r.authorization.type = "undefined" THEN r.tokenInput ELSE r.authorization

\* the credential is the token, bare or behind "Bearer "
Names(credential, token) ==
  credential.type = "string" /\ ReplaceFirst(credential.chunks, Bearer) = token

StaticTokens == {UserToken, AdminToken, DemoToken}

RoleOf(token) ==
  CASE token = UserToken  -> "user"
    [] token = AdminToken -> "admin"
    [] token = DemoToken  -> "demo"

(***************************************************************************)
(* C1: on the strict tier the requests a client sends within one window    *)
(* are numbered from 1; requests 1 to 10 are not rejected, carry           *)
(* X-RateLimit-Remaining 9 down to 0 and reach the handler; request 11 and *)
(* every later one is answered 429 with a Retry-After header and never     *)
(* reaches the handler.                                                    *)
(***************************************************************************)
C1_StrictTierWindow ==
  \A s \in Slots :
    LET r == inflight[s]
    IN  (/\ r.phase # "idle"
         /\ r.ordinal > 0
         /\ Chain(r.route)[PositionOf(r.route, "rateLimit")][2] = "strict")
        => /\ r.ordinal <= 10 =>
                /\ r.status # 429
                /\ r.rejectedBy = 0
                /\ r.headers["X-RateLimit-Remaining"] = NumberToString(10 - r.ordinal)
                /\ r.phase = "done" => Handled(r)
           /\ r.ordinal >= 11 =>
                /\ r.status = 429
                /\ Has(r.headers, "Retry-After")
                /\ ~Handled(r)

\* the eleventh request of a window has been answered 429
C1_Witness ==
  \E s \in Slots :
    /\ inflight[s].phase = "done"
    /\ inflight[s].ordinal = 11
    /\ inflight[s].status = 429
    /\ Has(inflight[s].headers, "Retry-After")

(***************************************************************************)
(* C2: on GET /demo/protected a request without a token is answered 401, a *)
(* request whose token is not one of the three static tokens is answered   *)
(* 401, a request with one of the three reaches the handler with exactly   *)
(* the user record of that token, and the guest record is never attached.  *)
(***************************************************************************)
C2_ProtectedEndpoint ==
  \A s \in Slots :
    LET r == inflight[s]
    IN  Answered(r, "demo.protected") =>
          LET credential == Credential(r)
          IN  /\ ~Truthy(credential) => r.status = 401 /\ ~Handled(r)
              /\ (\A token \in StaticTokens : ~Names(credential, token)) =>
                   r.status = 401 /\ ~Handled(r)
              /\ \A token \in StaticTokens :
                   Names(credential, token) =>
                     /\ Handled(r)
                     /\ r.status = 200
                     /\ r.ctx.user = users[token]
                     /\ r.ctx.user.role = RoleOf(token)
              /\ CtxHas(r, "user") => r.ctx.user # GuestUser

(***************************************************************************)
(* C3: on GET /demo/admin a request authenticated with user-token-123, or  *)
(* any token of a role other than admin, is answered 403 and never reaches *)
(* the handler; a request authenticated with admin-token-456 reaches the   *)
(* handler with isAdmin = true and the four-entry permission list.         *)
(***************************************************************************)
C3_AdminEndpoint ==
  \A s \in Slots :
    LET r == inflight[s]
    IN  Matches(r, "demo.admin") =>
          /\ \A token \in {UserToken, DemoToken} :
               Names(Credential(r), token) =>
                 /\ ~Handled(r)
                 /\ r.phase = "done" => r.status = 403
          /\ Names(Credential(r), AdminToken) =>
               /\ r.status = 200
               /\ r.phase = "done" => Handled(r)
               /\ Handled(r) =>
                    /\ r.ctx.isAdmin = TRUE
                    /\ r.ctx.adminPermissions =
                         <<"read_all_users", "delete_users", "modify_system_settings",
                           "view_analytics">>

\* a request with user-token-123 has been answered 403 by the admin stage
C3_Witness ==
  \E s \in Slots :
    /\ Answered(inflight[s], "demo.admin")
    /\ Names(Credential(inflight[s]), UserToken)
    /\ inflight[s].status = 403
    /\ inflight[s].rejectedBy = PositionOf("demo.admin", "admin")

(***************************************************************************)
(* C4: GET /demo/public is answered 200 by its handler whatever the        *)
(* Authorization header (absent, malformed, invalid or valid).             *)
(***************************************************************************)
C4_PublicEndpoint ==
  \A s \in Slots :
    LET r == inflight[s]
    IN  Answered(r, "demo.public") =>
          r.status = 200 /\ Handled(r) /\ r.rejectedBy = 0 /\ ~CtxHas(r, "user")

\* a request with an invalid Authorization header has been answered 200
C4_Witness ==
  \E s \in Slots :
    /\ Answered(inflight[s], "demo.public")
    /\ inflight[s].authorization = Str(Bearer \o BogusToken)
    /\ inflight[s].status = 200

(***************************************************************************)
(* C5 as stated: every GET /demo/experimental is answered 403 and every    *)
(* GET /demo/multiple (feature:new-api, rollout 100) is answered 200,      *)
(* whatever the client's IP and user agent.                                *)
(***************************************************************************)
C5_AlwaysOk ==
  \A s \in Slots :
    LET r == inflight[s]
    IN  /\ Answered(r, "demo.experimental") => r.status = 403
        /\ Answered(r, "demo.multiple") => r.status = 200

(***************************************************************************)
(* C5 amended: every GET /demo/experimental is answered 403 and never      *)
(* reaches the handler; on /demo/multiple the feature gate rejects no      *)
(* request whatever its IP and user agent, so every request the Auth stage *)
(* admits is answered 200 by the handler, and every other answer comes     *)
(* from the Auth stage.                                                    *)
(***************************************************************************)
C5_FeatureGates ==
  \A s \in Slots :
    LET r == inflight[s]
    IN  /\ Matches(r, "demo.experimental") =>
             /\ ~Handled(r)
             /\ r.phase = "done" => r.status = 403
        /\ Matches(r, "demo.multiple") =>
             /\ r.rejectedBy # PositionOf("demo.multiple", "feature")
             /\ r.status # 403
             /\ (r.phase = "done" /\ CtxHas(r, "user")) => (r.status = 200 /\ Handled(r))
             /\ (r.phase = "done" /\ r.status # 200) =>
                  \/ r.rejectedBy = PositionOf("demo.multiple", "auth")
                  \/ r.uncaught /\ r.thrownAt = PositionOf("demo.multiple", "auth")

\* a client whose rollout bucket is 85 has passed the new-api gate
C5_Witness ==
  \E s \in Slots :
    /\ Answered(inflight[s], "demo.multiple")
    /\ inflight[s].ip = IpLoopback /\ inflight[s].userAgent = UaAbsent
    /\ Mod100(getUserRolloutId(IpLoopback, UaAbsent)) = 85
    /\ inflight[s].status = 200
    /\ Handled(inflight[s])

(***************************************************************************)
(* C6: a flash message set by GET /demo/sessions/flash is not among the    *)
(* flash messages read in that request, is among those read in the next    *)
(* request of the session, and is not among those read in the request      *)
(* after that: every flash message a request reads was set by the request  *)
(* just before it, and the request after /demo/sessions/flash reads all    *)
(* four.                                                                   *)
(***************************************************************************)
FlashDemoKeys == {"success", "info", "warning", "error"}

\* messages holds the four messages flashed by the request with this serial
HoldsFlashOf(messages, serial) ==
  \A k \in FlashDemoKeys : Has(messages, k) /\ messages[k].by = serial

SetBefore(messages, r) == \A k \in DOMAIN messages : messages[k].by = r.id - 1

C6_FlashLifetime ==
  \A s \in Slots :
    LET r == inflight[s]
    IN  r.phase # "idle" =>
          /\ SetBefore(ReadFlashMessages(r), r)
          /\ r.previous = "sessions.flash" => HoldsFlashOf(ReadFlashMessages(r), r.id - 1)
          /\ (r.phase = "done" /\ Has(r.resBody.fields, "flash_messages")) =>
               /\ SetBefore(r.resBody.fields.flash_messages, r)
               /\ r.previous = "sessions.flash" =>
                    HoldsFlashOf(r.resBody.fields.flash_messages, r.id - 1)

\* the request after /demo/sessions/flash has answered with the four messages
C6_Witness ==
  \E s \in Slots :
    /\ Answered(inflight[s], "sessions.read")
    /\ inflight[s].previous = "sessions.flash"
    /\ HoldsFlashOf(inflight[s].resBody.fields.flash_messages, inflight[s].id - 1)

(***************************************************************************)
(* C7: the request after GET /demo/cookies/set-basic reads user_preference *)
(* as 'dark_mode'; after GET /demo/cookies/clear every request reads each  *)
(* of user_preference, visit_count, last_visit and shopping_cart as absent *)
(* until that cookie is set again.                                         *)
(***************************************************************************)
DemoCookies == {"user_preference", "visit_count", "last_visit", "shopping_cart"}

C7_CookieRoundTrip ==
  \A s \in Slots :
    LET r == inflight[s]
    IN  r.phase # "idle" =>
          /\ r.previous = "cookies.basic" =>
               /\ RequestCookie(r, "user_preference", "null") = "dark_mode"
               /\ (r.phase = "done" /\ Has(r.resBody.fields, "specific_cookies")) =>
                    /\ Has(r.resBody.fields.specific_cookies, "user_preference")
                    /\ r.resBody.fields.specific_cookies.user_preference = "dark_mode"
          /\ \A name \in DemoCookies \cap r.expectAbsent :
               /\ ~HasCookie(r, name)
               /\ (r.phase = "done" /\ Has(r.resBody.fields, "specific_cookies")) =>
                    ~Has(r.resBody.fields.specific_cookies, name)

\* after a clear and a later set-basic, a request has read the preference
\* back while the cart is still absent
C7_Witness ==
  \E s \in Slots :
    /\ Answered(inflight[s], "cookies.read")
    /\ inflight[s].previous = "cookies.basic"
    /\ "shopping_cart" \in inflight[s].expectAbsent
    /\ inflight[s].resBody.fields.specific_cookies.user_preference = "dark_mode"

(***************************************************************************)
(* C8: for a request that reaches its handler the before-phases run in     *)
(* registration order (RequestLogger, Cors, SecurityHeaders, then the      *)
(* named middleware in the order the route declares it), the handler runs  *)
(* after all of them, and the after-phases run in exactly the reverse      *)
(* order, each only when everything downstream of it has completed.        *)
(***************************************************************************)
C8_OnionOrder ==
  \A s \in Slots :
    LET r == inflight[s]
    IN  (r.phase # "idle" /\ Handled(r)) =>
          LET n == Len(Chain(r.route))
              declared == Routes[r.route].middleware
              m == Len(declared)
          IN  /\ Len(r.trace) >= n + 1
              /\ \A i \in 1..n : r.trace[i] = <<"before", i>>
              /\ r.trace[n + 1] = <<"handler", n + 1>>
              /\ \A j \in 1..(Len(r.trace) - n - 1) : r.trace[n + 1 + j] = <<"after", n + 1 - j>>
              /\ r.phase = "done" => Len(r.trace) = 2 * n + 1
              /\ <<Chain(r.route)[1][1], Chain(r.route)[2][1], Chain(r.route)[3][1]>>
                   = <<"RequestLogger", "Cors", "SecurityHeaders">>
              /\ \A k \in 1..m : Chain(r.route)[n - m + k] = declared[k]

\* a request through five named and global stages has unwound all of them
C8_Witness ==
  \E s \in Slots :
    /\ Answered(inflight[s], "demo.multiple")
    /\ Handled(inflight[s])
    /\ Len(inflight[s].trace) = 2 * Len(Chain("demo.multiple")) + 1

(***************************************************************************)
(* C9: when a middleware answers without calling next() (Auth 401, Admin   *)
(* 401/403, RateLimit 429, FeatureFlag 404/403/401, Cors 204 on OPTIONS,   *)
(* ResponseTransformer 400) no before-phase of a later middleware and no   *)
(* handler runs, and the after-phases of the middleware entered before it  *)
(* still run, innermost first.                                             *)
(***************************************************************************)
RejectionStatus(name) ==
  CASE name = "auth"      -> {401}
    [] name = "admin"     -> {401, 403}
    [] name = "rateLimit" -> {429}
    [] name = "feature"   -> {404, 403, 401}
    [] name = "Cors"      -> {204}
    [] name = "transform" -> {400}
    [] OTHER              -> {}

C10_ErrorEnvelope ==
  \A s \in Slots :
    LET r == inflight[s]
    IN  (/\ r.phase # "idle"
         /\ Uses(r.route, "transform")
         /\ r.thrownAt > PositionOf(r.route, "transform"))
        => /\ r.phase = "throw" => r.pos >= PositionOf(r.route, "transform")
           /\ r.phase = "done" =>
                /\ ~r.uncaught
                /\ r.status = 500
                /\ r.resBody.kind = "object"
                /\ r.resBody.fields.error = "Internal Server Error"
                /\ r.resBody.fields.message = "An error occurred while processing your request"
                /\ r.resBody.fields.meta.requestId = r.headers["X-Request-ID"]

\* the exception of /demo/error has been answered by the transformer
C10_Witness ==
  \E s \in Slots :
    /\ Answered(inflight[s], "demo.error")
    /\ inflight[s].thrownAt = Len(Chain("demo.error")) + 1
    /\ inflight[s].status = 500
    /\ inflight[s].resBody.fields.meta.requestId \in RequestIds

(***************************************************************************)
(* C11: on every route that uses the response transformer every response,  *)
(* the 401, 403 and 429 rejections of the route's auth, admin, feature and *)
(* rate-limit stages included, carries the X-Request-ID header and the     *)
(* meta object in its body.                                                *)
(***************************************************************************)
C11_TransformerWraps ==
  \A s \in Slots :
    LET r == inflight[s]
    IN  (/\ r.phase = "done"
         /\ Matches(r, r.route)
         /\ Uses(r.route, "transform")
         /\ \/ r.rejectedBy = 0
            \/ ChainOf(r)[r.rejectedBy][1] \in {"auth", "admin", "feature", "rateLimit"})
        => /\ Has(r.headers, "X-Request-ID")
           /\ r.resBody.kind = "object"
           /\ Has(r.resBody.fields, "meta")

(***************************************************************************)
(* C12: when the stages downstream of the response transformer return      *)
(* without throwing, the transformer leaves the status code as it is; of   *)
(* an object body it keeps every field with its value and adds a meta      *)
(* object of requestId, processingTime, timestamp and version "1.0.0"; a   *)
(* body that is not an object is left as it is.                            *)
(***************************************************************************)
C12_Envelope ==
  [][\A s \in Slots :
       LET r == inflight[s]
           after == inflight'[s]
       IN  (r.phase = "up" /\ AtAfter(r, "transform") /\ after # r) =>
             /\ after.status = r.status
             /\ r.resBody.kind = "object" =>
                  /\ after.resBody.kind = "object"
                  /\ DOMAIN after.resBody.fields = DOMAIN r.resBody.fields \cup {"meta"}
                  /\ \A f \in DOMAIN r.resBody.fields :
                       after.resBody.fields[f] = r.resBody.fields[f]
                  /\ DOMAIN after.resBody.fields.meta =
                       {"requestId", "processingTime", "timestamp", "version"}
                  /\ after.resBody.fields.meta.version = "1.0.0"
                  /\ after.resBody.fields.meta.requestId = r.headers["X-Request-ID"]
             /\ r.resBody.kind # "object" => after.resBody = r.resBody]_vars

\* the 201 of the create handler has gone through the transformer of
\* /premium/settings and carries the handler's fields and the meta object
C12_Witness ==
  \E s \in Slots :
    /\ Answered(inflight[s], "premium.settings")
    /\ inflight[s].status = 201
    /\ inflight[s].resBody.kind = "object"
    /\ DOMAIN inflight[s].resBody.fields = {"message", "created_by", "created_at", "meta"}
    /\ inflight[s].resBody.fields.message = "Data created successfully"
    /\ inflight[s].resBody.fields.meta.version = "1.0.0"

(***************************************************************************)
(* C13: every response carries the eight security headers, whatever the    *)
(* method and the outcome: preflight (OPTIONS) responses, rejections by a  *)
(* guard and handler errors included.                                      *)
(***************************************************************************)
C13_SecurityHeadersAlways ==
  \A s \in Slots :
    inflight[s].phase = "done" =>
      \A name \in {"X-Frame-Options", "X-Content-Type-Options", "X-XSS-Protection",
                   "Referrer-Policy", "Content-Security-Policy",
                   "Strict-Transport-Security", "Permissions-Policy", "X-Powered-By"} :
        Has(inflight[s].headers, name)

\* how many times the stage at position pos has been entered
Entered(r, pos) == Cardinality({i \in 1..Len(r.trace) : r.trace[i] = <<"before", pos>>})

\* the response has the headers that setCorsHeaders sets for the request's origin
HasCorsHeaders(r) ==
  /\ Has(r.headers, "Access-Control-Allow-Methods")
  /\ r.headers["Access-Control-Allow-Methods"] = allowedMethods
  /\ Has(r.headers, "Access-Control-Allow-Headers")
  /\ r.headers["Access-Control-Allow-Headers"] = allowedHeaders
  /\ Has(r.headers, "Access-Control-Allow-Credentials")
  /\ r.headers["Access-Control-Allow-Credentials"] = "true"
  /\ r.origin = "" => /\ Has(r.headers, "Access-Control-Allow-Origin")
                      /\ r.headers["Access-Control-Allow-Origin"] = "*"
  /\ r.origin \in allowedOrigins => /\ Has(r.headers, "Access-Control-Allow-Origin")
                                    /\ r.headers["Access-Control-Allow-Origin"] = r.origin
  /\ r.origin \notin allowedOrigins \cup {""} => ~Has(r.headers, "Access-Control-Allow-Origin")

CorsHeaderNames ==
  {"Access-Control-Allow-Origin", "Access-Control-Allow-Methods",
   "Access-Control-Allow-Headers", "Access-Control-Allow-Credentials", "Access-Control-Max-Age"}

(***************************************************************************)
(* C14: Cors answers an OPTIONS request 204 with the CORS headers and      *)
(* Access-Control-Max-Age, and no stage after it nor the handler runs; for *)
(* any other method it calls downstream exactly once, and the response has *)
(* no CORS header until downstream has completed and has them once Cors    *)
(* has returned.                                                           *)
(***************************************************************************)
C14_Preflight ==
  \A s \in Slots :
    LET r == inflight[s]
        cors == PositionOf(r.route, "Cors")
        returned == r.phase \in {"up", "done"} /\ r.pos < cors /\ ~r.uncaught
    IN  r.phase # "idle" =>
          /\ r.method = "OPTIONS" =>
               /\ r.pos <= cors
               /\ \A i \in 1..Len(r.trace) : r.trace[i][2] <= cors
               /\ ~Handled(r)
               /\ Entered(r, cors + 1) = 0
               /\ r.phase = "done" =>
                    /\ r.status = 204
                    /\ HasCorsHeaders(r)
                    /\ Has(r.headers, "Access-Control-Max-Age")
                    /\ r.headers["Access-Control-Max-Age"] = "86400"
          /\ r.method # "OPTIONS" =>
               /\ Entered(r, cors + 1) = IF r.pos > cors + 1 \/ r.phase # "down" THEN 1 ELSE 0
               /\ ~returned => \A name \in CorsHeaderNames : ~Has(r.headers, name)
               /\ returned => HasCorsHeaders(r) /\ ~Has(r.headers, "Access-Control-Max-Age")

\* a preflight from an allowed origin has been answered 204 by Cors alone
C14_Witness ==
  \E s \in Slots :
    /\ inflight[s].phase = "done"
    /\ inflight[s].method = "OPTIONS"
    /\ inflight[s].origin = "http://localhost:3000"
    /\ inflight[s].status = 204
    /\ inflight[s].rejectedBy = PositionOf(inflight[s].route, "Cors")
    /\ inflight[s].headers["Access-Control-Allow-Origin"] = "http://localhost:3000"
    /\ inflight[s].headers["Access-Control-Max-Age"] = "86400"

FeatureHeaderNames == {"X-Feature-Flag", "X-Feature-Enabled", "X-Feature-Rollout"}

\* the first check of the gate that fails for flag name, in the order unknown
\* flag, disabled flag, client outside the rollout, authentication; "" when none
FirstFailure(name, ip, userAgent, hasUser) ==
  CASE name \notin DOMAIN features -> "Feature not found"
    [] name \in DOMAIN features /\ ~features[name].enabled -> "Feature disabled"
    [] /\ name \in DOMAIN features /\ features[name].enabled
       /\ Mod100(getUserRolloutId(ip, userAgent)) >= features[name].rollout ->
         "Feature not available"
    [] /\ name \in DOMAIN features /\ features[name].enabled
       /\ Mod100(getUserRolloutId(ip, userAgent)) < features[name].rollout
       /\ features[name].requiresAuth /\ ~hasUser -> "Authentication required"
    [] OTHER -> ""

FailureStatus(failure) ==
  CASE failure = "Feature not found" -> 404
    [] failure = "Feature disabled" -> 403
    [] failure = "Feature not available" -> 403
    [] failure = "Authentication required" -> 401

(***************************************************************************)
(* C15: the feature gate checks, in this order, that the flag is known     *)
(* (404), enabled (403), that the client is inside the rollout (403) and,  *)
(* for a flag that requires it, that the context has a user (401), and     *)
(* answers the first failure.  A rejected request never has the feature    *)
(* field in its context nor an X-Feature-* header; an admitted one has the *)
(* feature field from the moment downstream runs, and the three X-Feature  *)
(* headers once downstream has completed and not before.                   *)
(***************************************************************************)
C15_GateOrder ==
  \A s \in Slots :
    LET r == inflight[s]
    IN  (r.phase # "idle" /\ Has(r.loc, "featureName")) =>
          LET gate == PositionOf(r.route, "feature")
              name == r.loc.featureName
              failure == FirstFailure(name, r.ip, r.userAgent, CtxHas(r, "user"))
              returned == r.phase \in {"up", "done"} /\ r.pos < gate /\ ~r.uncaught
          IN  /\ failure # "" =>
                   /\ r.rejectedBy = gate
                   /\ r.status = FailureStatus(failure)
                   /\ r.resBody.fields.error = failure
                   /\ ~CtxHas(r, "feature")
                   /\ \A h \in FeatureHeaderNames : ~Has(r.headers, h)
                   /\ \A i \in 1..Len(r.trace) : r.trace[i][2] <= gate
              /\ failure = "" =>
                   /\ r.rejectedBy # gate
                   /\ CtxHas(r, "feature")
                   /\ r.ctx.feature.name = name
                   /\ ~returned => \A h \in FeatureHeaderNames : ~Has(r.headers, h)
                   /\ returned =>
                        /\ \A h \in FeatureHeaderNames : Has(r.headers, h)
                        /\ r.headers["X-Feature-Flag"] = name
                        /\ r.headers["X-Feature-Enabled"] = "true"
                        /\ ParseInt(r.headers["X-Feature-Rollout"]) = features[name].rollout

\* the gate, called for a flag that requires authentication on a request
\* without a user and inside the rollout, has answered 401
C15_Witness ==
  \E s \in Slots :
    /\ inflight[s].phase = "done"
    /\ Has(inflight[s].loc, "featureName")
    /\ inflight[s].loc.featureName = "premium-features"
    /\ ~CtxHas(inflight[s], "user")
    /\ inflight[s].rejectedBy = PositionOf(inflight[s].route, "feature")
    /\ inflight[s].status = 401
    /\ ~CtxHas(inflight[s], "feature")

\* the browser holds the cookies of names exactly as the request sent them
Kept(r, names) ==
  \A n \in names : /\ Has(jar, n) <=> Has(r.cookies, n)
                   /\ Has(jar, n) => jar[n] = r.cookies[n]

(***************************************************************************)
(* C16: once GET /demo/cookies/clear-auth is answered the browser has no   *)
(* auth_token cookie and holds user_preference, visit_count, last_visit    *)
(* and shopping_cart as before; once GET /demo/cookies/clear is answered   *)
(* it has none of those four and holds auth_token as before.               *)
(***************************************************************************)
C16_ClearRoutes ==
  \A s \in Slots :
    LET r == inflight[s]
    IN  /\ Answered(r, "cookies.clearAuth") =>
             ~Has(jar, "auth_token") /\ Kept(r, DemoCookies)
        /\ Answered(r, "cookies.clear") =>
             (\A n \in DemoCookies : ~Has(jar, n)) /\ Kept(r, {"auth_token"})

(***************************************************************************)
(* C17: on every route bound to DemoController.admin (/demo/admin and      *)
(* /premium/analytics) the handler runs only for a request whose           *)
(* authenticated user has the role admin.                                  *)
(***************************************************************************)
C17_AdminHandlerGuarded ==
  \A s \in Slots :
    LET r == inflight[s]
    IN  (/\ r.phase # "idle"
         /\ Routes[r.route].handler = "DemoController.admin"
         /\ Handled(r))
        => CtxHas(r, "user") /\ r.ctx.user.role = "admin"

(***************************************************************************)
(* C18: the rate-limit table has one entry for each pair of client IP and  *)
(* tier that has been counted, and the entry of a pair counts the requests *)
(* of that client on that tier and nothing else, whatever the route:       *)
(* requests of a client on other tiers, and of other clients on the same   *)
(* tier, change neither its count nor its reset time.                      *)
(***************************************************************************)
C18_KeyedByClientAndTier ==
  /\ Cardinality(DOMAIN requests) = Cardinality(DOMAIN window)
  /\ \A client \in DOMAIN window :
       LET key == RateKey(client[1], client[2])
       IN  /\ Has(requests, key)
           /\ requests[key].count = window[client].ord
           /\ requests[key].resetTime = window[client].open + limits[client[2]].windowMs

\* one client has been counted once on two tiers, and each entry says one request
C18_Witness ==
  \E ip \in IPs : \E t1, t2 \in DOMAIN limits :
    /\ t1 # t2
    /\ Has(window, <<ip, t1>>) /\ Has(window, <<ip, t2>>)
    /\ requests[RateKey(ip, t1)].count = 1
    /\ requests[RateKey(ip, t2)].count = 1

\* the requests received so far that have gone through the rate-limit check
Checked ==
  served - Cardinality({s \in Slots :
                          /\ inflight[s].phase = "down"
                          /\ inflight[s].pos <= PositionOf(inflight[s].route, "rateLimit")})

\* the requests in process that were counted as number n of their window
CountedAs(n) == {s \in Slots : inflight[s].phase # "idle" /\ inflight[s].ordinal = n}

(***************************************************************************)
(* C19: whatever the interleaving of the requests in process, once N       *)
(* requests of one client have gone through the rate-limit check of one    *)
(* tier within one window the stored count is exactly N, no two requests   *)
(* were counted under the same number, and min(N, threshold) of them were  *)
(* admitted.                                                               *)
(***************************************************************************)
C19_NoLostUpdate ==
  LET client == <<IpLoopback, "strict">>
      key == RateKey(IpLoopback, "strict")
  IN  /\ Checked = 0 <=> ~Has(requests, key)
      /\ Has(requests, key) =>
           /\ requests[key].count = Checked
           /\ window[client].admitted =
                IF Checked <= limits.strict.requests THEN Checked ELSE limits.strict.requests
           /\ \A n \in 1..Checked : Cardinality(CountedAs(n)) <= 1
           /\ \A s \in Slots :
                (inflight[s].phase # "idle" /\ inflight[s].ordinal > 0) =>
                  /\ inflight[s].ordinal <= Checked
                  /\ inflight[s].rejectedBy = 0 <=> inflight[s].ordinal <= limits.strict.requests

\* two requests are in process at once, both past the check, the eleventh
\* rejected while the tenth is still on its way
C19_Witness ==
  /\ inflight[1].phase # "idle" /\ inflight[2].phase # "idle"
  /\ inflight[1].ordinal = 10 /\ Busy(inflight[1]) /\ inflight[1].rejectedBy = 0
  /\ inflight[2].ordinal = 11 /\ inflight[2].status = 429
  /\ requests[RateKey(IpLoopback, "strict")].count = 11

(***************************************************************************)
(* C20: on the strict tier the window is fixed.  A request that finds no   *)
(* entry for its key, or arrives strictly after the stored reset time,     *)
(* starts a window: count 1, reset time one window length ahead, and it is *)
(* admitted with the full quota (9 remaining) whatever the count before.   *)
(* Every other request, admitted or rejected, adds one to the count and    *)
(* leaves the reset time as it is; nothing else changes an entry.          *)
(***************************************************************************)
C20_FixedWindow ==
  [][/\ DOMAIN requests \subseteq DOMAIN requests'
     /\ \A key \in DOMAIN requests' :
          (key \notin DOMAIN requests \/ requests'[key] # requests[key]) =>
            IF key \notin DOMAIN requests \/ now > requests[key].resetTime
              THEN /\ requests'[key] =
                        [count |-> 1, resetTime |-> now + limits.strict.windowMs]
                   /\ \E s \in Slots :
                        /\ inflight'[s] # inflight[s]
                        /\ inflight'[s].rejectedBy = 0
                        /\ inflight'[s].headers["X-RateLimit-Remaining"] =
                             NumberToString(limits.strict.requests - 1)
              ELSE /\ requests'[key].resetTime = requests[key].resetTime
                   /\ requests'[key].count = requests[key].count + 1]_vars

\* after a window that counted eleven requests, the first request past the
\* reset time has been admitted as number 1 with 9 remaining
C20_Witness ==
  \E s \in Slots :
    /\ Answered(inflight[s], "demo.rateLimited")
    /\ inflight[s].ordinal = 1
    /\ Has(window, <<inflight[s].ip, "strict">>)
    /\ window[<<inflight[s].ip, "strict">>].prior >= 11
    /\ inflight[s].status = 200
    /\ inflight[s].headers["X-RateLimit-Remaining"] = NumberToString(9)
    /\ requests[RateKey(inflight[s].ip, "strict")] = [count |-> 1, resetTime |-> now + 60000]

\* the request has gone through the feature gate
Gated(r) == r.phase # "idle" /\ Has(r.loc, "featureName")

\* what the gate decided: "admit", or the error of its rejection
Decision(r) ==
  IF r.rejectedBy = PositionOf(r.route, "feature") THEN r.resBody.fields.error ELSE "admit"

\* the bucket of a client: the hash of "::1", "::1iPhone", "10.0.0.7" and
\* "10.0.0.7iPhone" is 57585, 128201034, 511552172 and 1299505103
Bucket(ip, userAgent) ==
  CASE ip = IpLoopback /\ userAgent = UaAbsent -> 85
    [] ip = IpLoopback /\ userAgent = UaIPhone -> 34
    [] ip = IpLan /\ userAgent = UaAbsent      -> 72
    [] ip = IpLan /\ userAgent = UaIPhone      -> 3

Detected(r) == r.phase # "idle" /\ Has(r.loc, "deviceInfo")

(***************************************************************************)
(* C22: on a route with the device detector, once the detector has run the *)
(* X-Device-Type, X-Browser and X-OS headers have the values of the device *)
(* record in the context; when the detector returns, a mobile device and   *)
(* an object body downstream give the downstream body plus                 *)
(* mobile_optimized: true and device_info, and any other device type or    *)
(* body leaves the body as it is.                                          *)
(***************************************************************************)
C22_DeviceHeadersAndBody ==
  [][\A s \in Slots :
       LET r == inflight[s]
           after == inflight'[s]
       IN  /\ Detected(after) =>
                /\ CtxHas(after, "device")
                /\ Has(after.headers, "X-Device-Type")
                /\ after.headers["X-Device-Type"] = after.ctx.device.type
                /\ Has(after.headers, "X-Browser")
                /\ after.headers["X-Browser"] = after.ctx.device.browser
                /\ Has(after.headers, "X-OS")
                /\ after.headers["X-OS"] = after.ctx.device.os
           /\ (r.phase = "up" /\ AtAfter(r, "device") /\ after # r) =>
                IF r.ctx.device.type = "mobile" /\ r.resBody.kind = "object"
                  THEN /\ after.resBody.kind = "object"
                       /\ DOMAIN after.resBody.fields =
                            DOMAIN r.resBody.fields \cup {"mobile_optimized", "device_info"}
                       /\ \A f \in DOMAIN r.resBody.fields :
                            after.resBody.fields[f] = r.resBody.fields[f]
                       /\ after.resBody.fields.mobile_optimized = TRUE
                       /\ after.resBody.fields.device_info = r.ctx.device
                  ELSE after.resBody = r.resBody
           /\ (after.phase = "done" /\ after.resBody.kind = "object"
                 /\ Has(after.resBody.fields, "mobile_optimized")) =>
                /\ Detected(after)
                /\ after.ctx.device.type = "mobile"]_vars

\* an iPhone has been answered on /demo/device with the flags in the body
C22_Witness ==
  \E s \in Slots :
    /\ Answered(inflight[s], "demo.device")
    /\ inflight[s].userAgent = UaIPhone
    /\ inflight[s].headers["X-Device-Type"] = "mobile"
    /\ inflight[s].headers["X-OS"] = "ios"
    /\ inflight[s].resBody.kind = "object"
    /\ inflight[s].resBody.fields.mobile_optimized = TRUE
    /\ inflight[s].resBody.fields.device_info.type = "mobile"
    /\ Has(inflight[s].resBody.fields, "message")

\* the user agent names an iPad, or Android without "mobile"
IdentifiesTablet(userAgent) ==
  LET ua == ToLowerCase(userAgent)
  IN  \/ Includes(ua, Words.ipad)
      \/ Includes(ua, Words.android) /\ ~Includes(ua, Words.mobile)

(***************************************************************************)
(* C28: the device record has one type out of desktop, mobile, tablet and  *)
(* tv, isMobile is true exactly for type mobile and isTablet exactly for   *)
(* type tablet, and a user agent that names an iPad, or Android without    *)
(* "mobile", gets type tablet.                                             *)
(***************************************************************************)
C28_TabletIsTablet ==
  \A s \in Slots :
    LET r == inflight[s]
    IN  Detected(r) =>
          /\ r.ctx.device.type \in {"desktop", "mobile", "tablet", "tv"}
          /\ r.ctx.device.isMobile <=> r.ctx.device.type = "mobile"
          /\ r.ctx.device.isTablet <=> r.ctx.device.type = "tablet"
          /\ IdentifiesTablet(r.userAgent) => r.ctx.device.type = "tablet"

\* the session manager has looked at the session of the request
SessionSeen(r) == r.phase # "idle" /\ Uses(r.route, "sessions") /\ r.sessionInfo # EmptyMap

(***************************************************************************)
(* C23: the cart item count a session route reports is the number of       *)
(* requests to /demo/sessions/shopping-cart since the last clear-cart,     *)
(* logout or destroy request, or since the session began, the current      *)
(* request included.                                                       *)
(***************************************************************************)
C23_SessionCartCount ==
  \A s \in Slots :
    LET r == inflight[s]
    IN  SessionSeen(r) =>
          /\ r.sessionInfo.cartItems = history.cartAdds
          /\ (r.phase = "done" /\ Routes[r.route].handler = "CookieSessionController.sessionsDemo") =>
               r.resBody.fields.session_information.cart_items_count = history.cartAdds

\* right after a request that added an item (its flash message is here) a
\* clear-cart request has been answered with count 0
C23_Witness ==
  \E s \in Slots :
    /\ Answered(inflight[s], "sessions.clearCart")
    /\ Has(inflight[s].flashMessages, "cart_message")
    /\ history.cartAdds = 0
    /\ inflight[s].resBody.fields.session_information.cart_items_count = 0
    /\ ~Has(sessStore.data, "cart")

(***************************************************************************)
(* C24: once GET /demo/sessions/logout is answered the session has no      *)
(* user, visit_count, last_visit, cart or cart_updated_at, and once GET    *)
(* /demo/sessions/destroy is answered it has no data at all; from the      *)
(* logout or destroy request itself on, every session request reports      *)
(* user_authenticated false, visit_count 0 and cart count 0 until an init  *)
(* or shopping-cart request comes.                                         *)
(***************************************************************************)
C24_LogoutAndDestroy ==
  \A s \in Slots :
    LET r == inflight[s]
    IN  /\ Answered(r, "sessions.logout") =>
             \A key \in {"user", "visit_count", "last_visit", "cart", "cart_updated_at"} :
               ~Has(sessStore.data, key)
        /\ Answered(r, "sessions.destroy") => sessStore.data = EmptyMap
        /\ (SessionSeen(r) /\ history.loggedOut) =>
             /\ ~r.sessionInfo.hasUser
             /\ r.sessionInfo.visitCount = 0
             /\ r.sessionInfo.cartItems = 0
             /\ (r.phase = "done"
                   /\ Routes[r.route].handler = "CookieSessionController.sessionsDemo") =>
                  LET info == r.resBody.fields.session_information
                  IN  /\ info.user_authenticated = FALSE
                      /\ info.visit_count = 0
                      /\ info.cart_items_count = 0

\* the request after a destroy reads an empty session
C24_Witness ==
  \E s \in Slots :
    /\ Answered(inflight[s], "sessions.read")
    /\ history.loggedOut
    /\ inflight[s].id >= 3
    /\ inflight[s].resBody.fields.session_information.user_authenticated = FALSE
    /\ inflight[s].resBody.fields.session_information.visit_count = 0
    /\ sessStore.data = EmptyMap

\* the context fields that the named middleware assigns
CtxFields(name) ==
  CASE name = "auth" -> {"user"}
    [] name = "admin" -> {"isAdmin", "adminPermissions"}
    [] name = "device" -> {"device"}
    [] name = "feature" -> {"feature"}
    [] name = "transform" -> {"requestId", "startTime"}
    [] OTHER -> {}

\* the stage at position pos has run up to its assignment of the context: the
\* transformer assigns first thing, the others right before they call next()
Wrote(r, pos) ==
  /\ \E i \in 1..Len(r.trace) : r.trace[i] = <<"before", pos>>
  /\ r.rejectedBy = pos => ChainOf(r)[pos][1] = "transform"
  /\ r.thrownAt = pos => \E i \in 1..Len(r.trace) : r.trace[i] = <<"after", pos>>

(***************************************************************************)
(* C25: the request context only grows: a step of a request keeps every    *)
(* context field with its value, the context holds exactly the fields      *)
(* assigned by the stages that have run, and the handler of /demo/multiple *)
(* runs with user, device and feature in the context.                      *)
(***************************************************************************)
C25_ContextAccumulates ==
  [][\A s \in Slots :
       LET r == inflight[s]
           after == inflight'[s]
       IN  (r.phase # "idle" /\ after.phase # "idle" /\ after.id = r.id) =>
             /\ \A field \in DOMAIN r.ctx :
                  Has(after.ctx, field) /\ after.ctx[field] = r.ctx[field]
             /\ DOMAIN after.ctx =
                  UNION {CtxFields(ChainOf(after)[pos][1]) :
                           pos \in {i \in 1..Len(ChainOf(after)) : Wrote(after, i)}}
             /\ (after.route = "demo.multiple"
                   /\ \E i \in 1..Len(after.trace) : after.trace[i][1] = "handler") =>
                  \A field \in {"user", "device", "feature"} : Has(after.ctx, field)]_vars

\* /demo/multiple has been answered by its handler, which saw all three fields
C25_Witness ==
  \E s \in Slots :
    /\ Answered(inflight[s], "demo.multiple")
    /\ \E i \in 1..Len(inflight[s].trace) : inflight[s].trace[i][1] = "handler"
    /\ DOMAIN inflight[s].ctx = {"user", "device", "feature"}
    /\ inflight[s].resBody.fields.middleware_data.user.name = inflight[s].ctx.user.name

\* the stage reads request.ctx.user: Admin, and FeatureFlag for a flag with
\* requiresAuth
NeedsUser(stage) ==
  \/ stage[1] = "admin"
  \/ stage[1] = "feature" /\ stage[2] \in DOMAIN features /\ features[stage[2]].requiresAuth

\* the handlers that read user.name without a null check
DereferencesUser(handler) == handler \in {"DemoController.protected", "DemoController.admin"}

\* auth is in the chain of the route before position pos
AuthPrecedes(route, pos) == \E j \in 1..(pos - 1) : Chain(route)[j][1] = "auth"

(***************************************************************************)
(* C26: in every declared route auth precedes each stage that needs the    *)
(* user (admin, a feature gate with requiresAuth, the handlers protected   *)
(* and admin); so when Admin or FeatureFlag rejects a request the user is  *)
(* in the context and the answer is not 401, and the handlers protected    *)
(* and admin only run with a user in the context.                          *)
(***************************************************************************)
C26_AuthPrecedesUserReaders ==
  /\ \A route \in DOMAIN Routes :
       /\ \A pos \in 1..Len(Chain(route)) :
            NeedsUser(Chain(route)[pos]) => AuthPrecedes(route, pos)
       /\ DereferencesUser(Routes[route].handler) =>
            AuthPrecedes(route, Len(Chain(route)) + 1)
  /\ \A s \in Slots :
       LET r == inflight[s]
       IN  r.phase # "idle" =>
             /\ (r.rejectedBy # 0 /\ NeedsUser(ChainOf(r)[r.rejectedBy])) =>
                  CtxHas(r, "user") /\ r.status # 401
             /\ (DereferencesUser(Routes[r.route].handler)
                   /\ \E i \in 1..Len(r.trace) : r.trace[i][1] = "handler") =>
                  CtxHas(r, "user") /\ r.thrownAt = 0

\* Admin has turned away a request that auth had let through with its user
C26_Witness ==
  \E s \in Slots :
    /\ Answered(inflight[s], "demo.admin")
    /\ inflight[s].rejectedBy # 0
    /\ ChainOf(inflight[s])[inflight[s].rejectedBy][1] = "admin"
    /\ inflight[s].status = 403
    /\ CtxHas(inflight[s], "user")
    /\ inflight[s].ctx.user.role # "admin"

(***************************************************************************)
(* C27: Access-Control-Allow-Origin is the request's Origin only for an    *)
(* origin of the allow-list, "*" only for a request without Origin, and is *)
(* not set for any other origin; once the CORS headers are on the response *)
(* (preflight or not) an allowed origin is echoed and a missing one gets   *)
(* "*".                                                                    *)
(***************************************************************************)
C27_AllowOrigin ==
  \A s \in Slots :
    LET r == inflight[s]
        set == Has(r.headers, "Access-Control-Allow-Origin")
    IN  r.phase # "idle" =>
          /\ (set /\ r.headers["Access-Control-Allow-Origin"] = "*") => r.origin = ""
          /\ (set /\ r.headers["Access-Control-Allow-Origin"] # "*") =>
               /\ r.headers["Access-Control-Allow-Origin"] = r.origin
               /\ r.origin \in allowedOrigins
          /\ (r.origin # "" /\ r.origin \notin allowedOrigins) => ~set
          /\ Has(r.headers, "Access-Control-Allow-Methods") =>
               /\ r.origin \in allowedOrigins =>
                    set /\ r.headers["Access-Control-Allow-Origin"] = r.origin
               /\ r.origin = "" => set /\ r.headers["Access-Control-Allow-Origin"] = "*"

\* a request from an origin outside the allow-list went through the chain and
\* back: it has the other CORS headers and no Access-Control-Allow-Origin
C27_Witness ==
  \E s \in Slots :
    /\ inflight[s].phase = "done"
    /\ inflight[s].method # "OPTIONS"
    /\ inflight[s].origin # ""
    /\ inflight[s].origin \notin allowedOrigins
    /\ Has(inflight[s].headers, "Access-Control-Allow-Credentials")
    /\ ~Has(inflight[s].headers, "Access-Control-Allow-Origin")

\* the position of the response transformer in the chain of r, 0 when it has none
TransformerAt(r) ==
  IF Uses(r.route, "transform")
    THEN CHOOSE i \in 1..Len(ChainOf(r)) : ChainOf(r)[i][1] = "transform"
    ELSE 0

(***************************************************************************)
(* C29: when the response transformer is reached by a request whose        *)
(* content-type includes application/json and whose body cannot be read,   *)
(* it answers 400 "Invalid JSON" with the request id in the body and in    *)
(* X-Request-ID and nothing downstream of it runs; a request whose body    *)
(* can be read is never rejected by the transformer.                       *)
(***************************************************************************)
C29_InvalidJson ==
  \A s \in Slots :
    LET r == inflight[s]
        at == TransformerAt(r)
        json == r.contentType \in {"application/json", "application/json; charset=utf-8"}
    IN  (r.phase # "idle" /\ at # 0) =>
          /\ (Entered(r, at) > 0 /\ json /\ r.bodyReadFails) =>
               /\ r.rejectedBy = at
               /\ r.status = 400
               /\ r.resBody = Object([error |-> "Invalid JSON",
                                      message |-> "Request body contains malformed JSON",
                                      requestId |-> r.ctx.requestId])
               /\ Has(r.headers, "X-Request-ID")
               /\ r.headers["X-Request-ID"] = r.ctx.requestId
               /\ \A i \in 1..Len(r.trace) : r.trace[i][2] <= at
          /\ ~r.bodyReadFails => r.rejectedBy # at
          /\ r.rejectedBy = at => json

\* a JSON request with a charset parameter and an unreadable body was answered
\* 400 by the transformer behind auth and the premium gate
C29_Witness ==
  \E s \in Slots :
    /\ inflight[s].phase = "done"
    /\ inflight[s].contentType = "application/json; charset=utf-8"
    /\ inflight[s].bodyReadFails
    /\ TransformerAt(inflight[s]) > 5
    /\ inflight[s].rejectedBy = TransformerAt(inflight[s])
    /\ inflight[s].status = 400

\* the items of the cart that request r came with: none when the cookie is
\* absent, not signed, not JSON or not an array
IncomingItems(r) ==
  IF HasCookie(r, "shopping_cart") /\ r.cookies["shopping_cart"].value.valid
       /\ r.cookies["shopping_cart"].value.value.type = "array"
    THEN r.cookies["shopping_cart"].value.value.items
    ELSE <<>>

AuthThenRateLimit(route) ==
  /\ Uses(route, "auth") /\ Uses(route, "rateLimit")
  /\ PositionOf(route, "auth") < PositionOf(route, "rateLimit")

(***************************************************************************)
(* C31: on a route with auth before the rate limiter, the rate-limit table *)
(* changes only in a step of a request that auth has let through with its  *)
(* user; a request that Auth has rejected with 401 never enters the rate   *)
(* limiter, is counted in no window and leaves the table as it is.         *)
(***************************************************************************)
C31_RejectedConsumesNoQuota ==
  [][\A s \in Slots :
       LET r == inflight[s]
           after == inflight'[s]
       IN  (Busy(r) /\ AuthThenRateLimit(r.route) /\ after.phase # "idle") =>
             /\ requests' # requests => CtxHas(r, "user") /\ r.rejectedBy = 0
             /\ after.rejectedBy = PositionOf(r.route, "auth") =>
                  /\ after.status = 401
                  /\ requests' = requests
                  /\ window' = window
                  /\ after.ordinal = 0
                  /\ Entered(after, PositionOf(r.route, "rateLimit")) = 0]_vars

\* an unauthenticated request to /api/v1/process was answered 401 while the
\* strict window of its IP, opened by authenticated requests, is exhausted
C31_Witness ==
  \E s \in Slots :
    /\ Answered(inflight[s], "api.process")
    /\ inflight[s].rejectedBy = PositionOf("api.process", "auth")
    /\ inflight[s].status = 401
    /\ Has(requests, RateKey(inflight[s].ip, "strict"))
    /\ requests[RateKey(inflight[s].ip, "strict")].count = limits["strict"].requests

RateLimitHeaderNames ==
  {"X-RateLimit-Limit", "X-RateLimit-Remaining", "X-RateLimit-Reset", "Retry-After"}

\* the rate-limit headers on the response of r
RateLimitHeaders(r) == [n \in RateLimitHeaderNames \cap DOMAIN r.headers |-> r.headers[n]]

(***************************************************************************)
(* C32: the step in which the rate limiter handles a request stores the    *)
(* count of the window plus one (1 in a fresh window), for admitted and    *)
(* rejected requests alike, and sets X-RateLimit-Limit to the tier's       *)
(* threshold, X-RateLimit-Reset to the stored reset time and               *)
(* X-RateLimit-Remaining to threshold minus stored count, which is not     *)
(* negative, when the request is admitted, and to 0 with status 429 and    *)
(* a Retry-After between 0 and the window length in seconds when it is     *)
(* rejected; no later step of the request changes these headers.           *)
(***************************************************************************)
C32_RateLimitHeaders ==
  [][\A s \in Slots :
       LET r == inflight[s]
           after == inflight'[s]
           at == PositionOf(r.route, "rateLimit")
       IN  (Busy(r) /\ at # 0 /\ after.phase # "idle") =>
             IF AtBefore(r, "rateLimit")
               THEN LET tier == Param(r)
                        key == RateKey(r.ip, tier)
                        fresh == ~Has(requests, key) \/ now > requests[key].resetTime
                        stored == requests'[key]
                    IN  /\ stored.count = IF fresh THEN 1 ELSE requests[key].count + 1
                        /\ stored.resetTime >= now
                        /\ stored.resetTime <= now + limits[tier].windowMs
                        /\ after.headers["X-RateLimit-Limit"].decimal = limits[tier].requests
                        /\ after.headers["X-RateLimit-Reset"].decimal = stored.resetTime
                        /\ IF after.rejectedBy = at
                             THEN /\ stored.count > limits[tier].requests
                                  /\ after.status = 429
                                  /\ after.headers["X-RateLimit-Remaining"].decimal = 0
                                  /\ after.headers["Retry-After"].decimal \in
                                       0..(limits[tier].windowMs \div 1000)
                             ELSE /\ after.headers["X-RateLimit-Remaining"].decimal =
                                       limits[tier].requests - stored.count
                                  /\ after.headers["X-RateLimit-Remaining"].decimal >= 0
                                  /\ ~Has(after.headers, "Retry-After")
               ELSE /\ RateLimitHeaders(after) = RateLimitHeaders(r)
                    /\ requests' = requests]_vars

\* the twelfth request of a strict window is answered 429 half a minute
\* before the window ends: the stored count has grown past the threshold
C32_Witness ==
  \E s \in Slots :
    /\ inflight[s].phase = "done"
    /\ inflight[s].status = 429
    /\ inflight[s].headers["X-RateLimit-Remaining"].decimal = 0
    /\ inflight[s].headers["Retry-After"].decimal \in 1..30
    /\ requests[RateKey(inflight[s].ip, "strict")].count = limits["strict"].requests + 2
    /\ inflight[s].headers["X-RateLimit-Reset"].decimal =
         requests[RateKey(inflight[s].ip, "strict")].resetTime

\* |hash| % 100 of each seed, computed outside the model
ExpectedBucket(ip, userAgent) ==
  IF ip = IpLoopback
    THEN CASE userAgent = UaAbsent        -> 85
           [] userAgent = UaIPhone        -> 34
           [] userAgent = UaIPad          -> 75
           [] userAgent = UaAndroidTablet -> 9
           [] userAgent = UaAndroidPhone  -> 0
           [] userAgent = UaSmartTv       -> 26
           [] userAgent = UaWindows       -> 56
           [] userAgent = UaMinInt        -> 48
    ELSE CASE userAgent = UaAbsent        -> 72
           [] userAgent = UaIPhone        -> 3
           [] userAgent = UaIPad          -> 62
           [] userAgent = UaAndroidTablet -> 30
           [] userAgent = UaAndroidPhone  -> 95
           [] userAgent = UaSmartTv       -> 99
           [] userAgent = UaWindows       -> 51
           [] userAgent = UaMinInt        -> 77

\* a request of the client at the feature gate of /demo/beta
AtGate(ip, userAgent) ==
  [NewRequest([Anonymous("demo.beta", ip) EXCEPT !.userAgent = userAgent])
     EXCEPT !.pos = PositionOf("demo.beta", "feature")]

(***************************************************************************)
(* C33: after every round of the rollout hash the value is a 32-bit        *)
(* integer; the id returned is the magnitude of a signed 32-bit integer    *)
(* (at most 2^31) and its bucket, id mod 100, lies in 0..99, also for the  *)
(* hash -2^31; a flag with rollout 100 (new-api) admits the client and a   *)
(* flag with rollout 0 (experimental) does not.                            *)
(***************************************************************************)
C33_HashStaysInt32 ==
  \A s \in Slots :
    LET r == inflight[s]
    IN  r.phase \in {"hashing", "hashed"} =>
          /\ r.hash \in (0..(Half - 1)) \X (0..(Half - 1))
          /\ r.hash = HashFrom(SubSeq(r.seed, 1, r.i - 1), 1, Zero32)
          /\ r.phase = "hashed" =>
               /\ r.rolloutId = getUserRolloutId(r.ip, r.userAgent)
               /\ r.rolloutId[1] < Half \div 2 \/ r.rolloutId = <<Half \div 2, 0>>
               /\ Mod100(r.rolloutId) \in 0..99
               /\ Mod100(r.rolloutId) = ExpectedBucket(r.ip, r.userAgent)
               /\ FeatureFlagHandle(AtGate(r.ip, r.userAgent), "new-api").rejectedBy = 0
               /\ FeatureFlagHandle(AtGate(r.ip, r.userAgent), "experimental").rejectedBy # 0

\* the hash of a seed came out as -2^31; its bucket is 48
C33_Witness ==
  \E s \in Slots :
    /\ inflight[s].phase = "hashed"
    /\ inflight[s].hash = <<Half \div 2, 0>>
    /\ inflight[s].rolloutId = <<Half \div 2, 0>>
    /\ Mod100(inflight[s].rolloutId) = 48

\* the after-phase of the stage at pos has run
AfterRan(r, pos) == \E i \in 1..Len(r.trace) : r.trace[i] = <<"after", pos>>

Presented(r) == IF r.authorization # Undefined THEN r.authorization ELSE r.tokenInput

\* the credential is a string that is a valid token once "Bearer " is removed
IsValidCredential(v) == v.type = "string" /\ ReplaceFirst(v.chunks, Bearer) \in validTokens

(***************************************************************************)
(* C35: once Auth has handled a request, the outcome depends on the        *)
(* Authorization header alone when the request has one and on the `token`  *)
(* input only when it has none: a valid credential puts its user into the  *)
(* context, a string that is not a valid token (or no credential) is       *)
(* answered 401 by Auth, whatever the other source holds; a request that   *)
(* Auth has rejected has no user in its context.                           *)
(***************************************************************************)
C35_HeaderBeforeInput ==
  \A s \in Slots :
    LET r == inflight[s]
        at == PositionOf(r.route, "auth")
        cred == Presented(r)
    IN  (r.phase # "idle" /\ at # 0 /\ Entered(r, at) > 0) =>
          /\ IsValidCredential(cred) =>
               /\ r.rejectedBy # at
               /\ CtxHas(r, "user")
               /\ r.ctx.user = users[ReplaceFirst(cred.chunks, Bearer)]
          /\ (cred = Undefined \/ (cred.type = "string" /\ ~IsValidCredential(cred))) =>
               /\ r.rejectedBy = at
               /\ r.status = 401
          /\ r.rejectedBy = at => ~CtxHas(r, "user") /\ r.status = 401

\* an invalid Authorization header next to a valid token parameter: 401
C35_Witness ==
  \E s \in Slots :
    /\ inflight[s].phase = "done"
    /\ inflight[s].authorization = Str(Bearer \o BogusToken)
    /\ inflight[s].tokenInput = Str(UserToken)
    /\ inflight[s].rejectedBy = PositionOf(inflight[s].route, "auth")
    /\ inflight[s].rejectedBy # 0
    /\ inflight[s].status = 401
    /\ ~CtxHas(inflight[s], "user")

C37_ComparisonChangesNothing ==
  [][\A s \in Slots :
       LET r == inflight[s]
           after == inflight'[s]
       IN  (Busy(r) /\ r.route \in ComparisonPair /\ after.phase # "idle") =>
             /\ after.setCookies = EmptyMap
             /\ jar' = jar
             /\ sessStore' = sessStore]_vars

(***************************************************************************)
(* C37 amended: a request to one of the two comparison routes takes no     *)
(* branch of either manager: it sets or clears no cookie, leaves the       *)
(* session's id and data as they are and flashes no message; the flash     *)
(* messages left by the previous request are shown to it and, as with any  *)
(* request, are gone from the session once it is answered.                 *)
(***************************************************************************)
C37_ComparisonTakesNoBranch ==
  [][\A s \in Slots :
       LET r == inflight[s]
           after == inflight'[s]
       IN  (Busy(r) /\ r.route \in ComparisonPair /\ after.phase # "idle") =>
             /\ after.setCookies = EmptyMap
             /\ jar' = jar
             /\ after.sess = InitiateSession(sessStore)
             /\ after.responseFlash = EmptyMap
             /\ ~after.regenerated
             /\ sessStore'.id = sessStore.id
             /\ InitiateSession(sessStore') = InitiateSession(sessStore)
             /\ after.phase # "done" => sessStore' = sessStore
             /\ after.phase = "done" => ~Has(sessStore'.data, FlashKey)]_vars

\* a comparison request that came with a cart cookie, a session cart and a
\* pending flash message has been answered: cookie and cart are as before,
\* the flash message is gone
C37_Witness ==
  \E s \in Slots :
    /\ inflight[s].phase = "done"
    /\ inflight[s].route \in ComparisonPair
    /\ inflight[s].id = 3
    /\ Has(inflight[s].flashMessages, "cart_message")
    /\ Has(jar, "shopping_cart")
    /\ Has(sessStore.data, "cart")
    /\ ~Has(sessStore.data, FlashKey)
    /\ inflight[s].setCookies = EmptyMap

====
